---- MODULE Spec2Model ----
(***************************************************************************)
(* Model of the session event pipeline of the realtime-talk backend:       *)
(*   websocket/handlers/context_manager.py   ContextManager                *)
(*   websocket/handlers/message_processor.py MessageProcessor              *)
(*   websocket/handlers/websocket_handler.py WebSocketHandler              *)
(*   gemini_live.py                          GeminiLive.start_session      *)
(*   gemini_session.py                       GeminiSessionManager          *)
(*                                                                         *)
(* The tasks of one session (message reception loop, text sender, receive  *)
(* loop, session loop) are asyncio tasks on one event loop: a task runs    *)
(* without interruption from one suspension point (an await that really    *)
(* suspends) to the next.  One action of the model is one such run.        *)
(***************************************************************************)
EXTENDS Integers, Sequences, FiniteSets, TLC

(***************************************************************************)
(* Bounds of the model.                                                    *)
(***************************************************************************)
\* asyncio.Queue(maxsize=10) of websocket_handler.py:18, scaled down so that
\* a full text queue is reached; every guard on the queue reads this value.
TextQueueMaxsize == 2
\* events the receive loop may put on the (unbounded) event queue in one run
MaxEvents == 3
\* function calls carried by one tool-call message
MaxCalls == 2
\* capacity of the audio queue (100 in websocket_handler.py:16, scaled)
AudioQueueMaxsize == 2
\* capacity of the video queue (10 in websocket_handler.py:17, scaled)
VideoQueueMaxsize == 1
\* most chunks the model lets one turn accumulate in current_turn_audio
MaxTurnAudio == 3
\* most text frames the model lets a client send to process_text_message
MaxFrames == 4
\* most server content messages whose content the model keeps track of
MaxMessages == 2

(***************************************************************************)
(* Python values.                                                          *)
(***************************************************************************)
\* Python's None, where a mapping (payload, event, queue item) is expected
None == [type |-> "None"]
\* Python's None, where a fingerprint is expected
NoneHash == <<>>
\* Python's None, where a turn text is expected; texts are token sequences
NoneText == <<>>
\* Python's None, where a list is expected
NoneList == <<>>
\* a JSON value that is not an object (a string, a list): .get() raises on it
NotAMapping == [json |-> "not-an-object"]

\* the client sink before the first event_callback call
NoCall == [type |-> "no call"]

\* dict.get(key, default)
Get(d, k, default) == IF k \in DOMAIN d THEN d[k] ELSE default

(***************************************************************************)
(* Selected text.  A text is [head, rest]: head holds its first 500         *)
(* characters, rest what lies beyond them ("" when it is no longer).       *)
(***************************************************************************)
\* selection_text[:500]
Prefix500(text) == text.head

Text1 == [head |-> "def f(): pass", rest |-> ""]
Text2 == [head |-> "x = 1", rest |-> ""]

(***************************************************************************)
(* Context payloads a client sends (spec section 6, parsed JSON objects).  *)
(***************************************************************************)
Selection(file, lang, s, e, text) ==
    [type |-> "context", subtype |-> "selection",
     data |-> [fileName |-> file, languageId |-> lang,
               selection |-> [start |-> [line |-> s], end |-> [line |-> e],
                              text |-> text]]]

SelA == Selection("foo.py", "python", 10, 12, Text1)
\* the fingerprint-relevant fields of SelA (file name, text), other lines
SelA2 == Selection("foo.py", "python", 20, 22, Text1)
SelB == Selection("foo.py", "python", 3, 3, Text2)
\* SelA under another language id, and SelA with text beyond the first 500
\* characters
SelALang == Selection("foo.py", "plaintext", 10, 12, Text1)
SelATail == Selection("foo.py", "python", 10, 12,
                      [head |-> "def f(): pass", rest |-> "# more"])
\* well-formed tree
TreeA == [type |-> "context", subtype |-> "tree",
          data |-> [roots |-> <<[name |-> "proj", tree |-> "src/"]>>]]
\* a tree whose roots hold a JSON string instead of an object
TreeBad == [type |-> "context", subtype |-> "tree",
            data |-> [roots |-> <<NotAMapping>>]]
\* legacy format
Legacy == [type |-> "editor_context",
           data |-> [fileName |-> "foo.py", languageId |-> "python",
                     cursor |-> [line |-> 4, character |-> 0]]]

\* a selection of no text, a tree of no roots, a selection and a tree of
\* another workspace
SelEmpty == Selection("bar.py", "python", 0, 0, [head |-> "", rest |-> ""])
TreeEmpty == [type |-> "context", subtype |-> "tree", data |-> [roots |-> <<>>]]
SelPeer == Selection("secret.py", "python", 0, 1, Text2)
TreePeer == [type |-> "context", subtype |-> "tree",
             data |-> [roots |-> <<[name |-> "other", tree |-> "keys/"]>>]]

\* the payloads update_context accepts and returns on
Payloads == {SelA, SelA2, SelB, TreeA, TreeBad, Legacy}

\* a selection whose "data" is a JSON string: data.get raises in
\* update_context (context_manager.py:41) before any field is written
SelCrash == [type |-> "context", subtype |-> "selection", data |-> NotAMapping]
IllTyped == {SelCrash}

(***************************************************************************)
(* Fingerprints: hashlib.md5(content).hexdigest()[:16].  md5 is modelled   *)
(* as injective on the hashed content (no collisions).                     *)
(***************************************************************************)
md5(content) == content

\* mutant: the fingerprint is taken over the whole data of the payload
SelectionHash_WholeData(payload) ==
    md5([type |-> "selection", data |-> Get(payload, "data", <<>>)])

\* context_manager.py:44-49
SelectionHash(payload) ==
    LET data == Get(payload, "data", <<>>)
        selection == Get(data, "selection", <<>>)
        selection_text == Get(selection, "text", [head |-> "", rest |-> ""])
    IN  md5([type |-> "selection",
             fileName |-> Get(data, "fileName", None),
             selectionText |-> Prefix500(selection_text)])

\* context_manager.py:70-72; the serialized trees of the model are shorter
\* than 2000 characters, so the [:2000] cut keeps them whole
TreeHash(payload) ==
    LET data == Get(payload, "data", <<>>)
    IN  md5([tree |-> data])

\* context_manager.py:85-92
LegacyHash(payload) ==
    LET data == Get(payload, "data", <<>>)
        sel == Get(data, "selection", None)
        snip == Get(data, "snippet", None)
    IN  md5([fileName |-> Get(data, "fileName", None),
             cursor |-> Get(data, "cursor", None),
             selection |-> IF sel # None
                           THEN Prefix500(Get(sel, "text", [head |-> "", rest |-> ""]))
                           ELSE "None",
             snippet |-> IF snip # None
                         THEN Get(snip, "text", "")
                         ELSE "None"])

IsSelection(p) == Get(p, "type", "") = "context" /\ Get(p, "subtype", "") = "selection"
IsTree(p) == Get(p, "type", "") = "context" /\ Get(p, "subtype", "") = "tree"
IsLegacy(p) == Get(p, "type", "") = "editor_context"

\* the fingerprint update_context computes for a payload
Fingerprint(p) ==
    IF IsSelection(p) THEN SelectionHash(p)
    ELSE IF IsTree(p) THEN TreeHash(p)
    ELSE LegacyHash(p)

(***************************************************************************)
(* _format_editor_context_for_gemini (context_manager.py:152-246).  The    *)
(* text block is modelled by the values its lines are built from.          *)
(***************************************************************************)
\* the "" the formatter returns from its except branch
EmptyText == [block |-> ""]

IsMapping(v) == v # NotAMapping

\* context_manager.py:165-190
FormatSelection(data) ==
    LET selection == Get(data, "selection", <<>>)
        start == Get(selection, "start", <<>>)
        end == Get(selection, "end", <<>>)
    IN  [block |-> "SELECTION CONTEXT",
         file |-> Get(data, "fileName", "unknown"),
         language |-> Get(data, "languageId", "unknown"),
         lines |-> IF selection # <<>>
                   THEN <<Get(start, "line", 0) + 1, Get(end, "line", 0) + 1>>
                   ELSE <<>>,
         code |-> IF selection # <<>>
                  THEN Get(selection, "text", [head |-> "", rest |-> ""])
                  ELSE [head |-> "", rest |-> ""]]

\* context_manager.py:193-203; root.get raises on a root that is no mapping
FormatTree(data) ==
    LET roots == Get(data, "roots", <<>>)
    IN  IF \E i \in DOMAIN roots : ~IsMapping(roots[i])
        THEN EmptyText
        ELSE [block |-> "WORKSPACE TREE",
              roots |-> [i \in DOMAIN roots |->
                           [name |-> Get(roots[i], "name", "workspace"),
                            tree |-> Get(roots[i], "tree", "")]]]

\* context_manager.py:206-242 (the payloads of the model carry no
\* selection, snippet or gitDiff in the legacy format)
FormatLegacy(data) ==
    LET cursor == Get(data, "cursor", None)
    IN  [block |-> "EDITOR CONTEXT",
         file |-> Get(data, "fileName", "unknown"),
         language |-> Get(data, "languageId", "unknown"),
         cursor |-> IF cursor # None
                    THEN <<Get(cursor, "line", 0) + 1, Get(cursor, "character", 0) + 1>>
                    ELSE <<>>]

\* context_manager.py:152-246
format_editor_context_for_gemini(context) ==
    LET data == Get(context, "data", <<>>)
    IN  IF ~IsMapping(data) THEN EmptyText
        ELSE IF IsSelection(context) THEN FormatSelection(data)
        ELSE IF IsTree(context) THEN FormatTree(data)
        ELSE FormatLegacy(data)

(***************************************************************************)
(* State.                                                                  *)
(***************************************************************************)
VARIABLES
    \* ContextManager (context_manager.py:14-26)
    pending_context,
    pending_context_hash,
    last_injected_context_hash,
    user_speech_detected,
    context_injected_this_speech,
    context_injected_count,
    \* WebSocketHandler.text_input_queue (websocket_handler.py:18)
    text_input_queue,
    \* the message reception loop: where it is, the text it is blocked on
    \* putting, and what its last update_context call returned
    router_pc,
    router_text,
    update_result,
    \* the multiplexer's tasks and its event queue (gemini_live.py:154-269)
    send_text_task,
    receive_task,
    event_queue,
    \* the audio and video queues (websocket_handler.py:16-17) and their
    \* sender tasks (gemini_live.py:125-152)
    audio_input_queue,
    video_input_queue,
    send_audio_task,
    send_video_task,
    \* history: the text frame process_text_message took last and how many
    \* it has taken (kept by RouterFrame)
    last_frame,
    \* history: the server content message the receive loop handled last and
    \* how many it has handled (kept by ReceiveMessage)
    last_message,
    \* history: an Interrupted event was processed after the first user
    \* transcript of the turn that is running (kept by SessionTracked)
    turn_interrupted,
    \* history: the context that was pending when the first user transcript
    \* of the running turn was taken (kept by SessionTracked)
    speech_start_context,
    \* history: the number of frames the router had taken at that moment
    speech_start_frame,
    \* prompt_tools._current_context, the mapping of the module
    \* (prompt_tools.py:50-54)
    current_context,
    \* history: what that mapping would hold had only this session's
    \* ContextManager called set_current_context
    own_context,
    \* the arguments and the result of the last get_editor_context call
    tool_result,
    \* the pending fields of the ContextManager of a second session that
    \* runs in the same process
    peer_pending_context,
    peer_pending_context_hash,
    \* the receive loop: where it is, the function calls of the tool-call
    \* message still to handle, the responses gathered for them
    receive_pc,
    calls_left,
    function_responses,
    \* history: the function calls of the current tool-call message handled
    \* so far, and the tool-response transmissions made for it
    requested,
    responses_sent,
    \* the session loop: where it is, the event it holds, the context text
    \* inject_context_if_needed holds while its put is suspended
    session_pc,
    event,
    context_text,
    \* GeminiSessionManager and MessageProcessor turn accumulators
    current_user_text,
    current_gemini_text,
    current_turn_audio,
    \* the client sink: the argument of the latest event_callback call
    sink_last,
    \* history: number of events the receive loop has put, number of yielded
    \* events passed to the sink, context blocks enqueued since the last
    \* processed TurnComplete, fingerprint of the payload context_text was
    \* formatted from, fingerprint of the payload whose block was enqueued last
    emitted,
    forwarded,
    injected_this_turn,
    context_text_hash,
    enqueued_hash,
    \* history: fingerprint of the context that was pending, changed and
    \* formattable when the first user transcript of the turn was processed
    turn_due_hash

tracker == <<pending_context, pending_context_hash, last_injected_context_hash,
             user_speech_detected, context_injected_this_speech,
             context_injected_count>>
router == <<router_pc, router_text, update_result>>
tasks == <<send_text_task, receive_task, send_audio_task, send_video_task>>
senders == <<send_audio_task, send_video_task>>
media_queues == <<audio_input_queue, video_input_queue>>
turn_history == <<turn_interrupted, speech_start_context, speech_start_frame>>
tool_context == <<current_context, own_context, tool_result>>
peer == <<peer_pending_context, peer_pending_context_hash>>
dispatch == <<receive_pc, calls_left, function_responses, requested,
              responses_sent>>
accumulators == <<current_user_text, current_gemini_text, current_turn_audio>>
injection == <<context_text, context_text_hash, enqueued_hash,
               injected_this_turn, turn_due_hash>>

vars == <<pending_context, pending_context_hash, last_injected_context_hash,
          user_speech_detected, context_injected_this_speech,
          context_injected_count, text_input_queue, router_pc, router_text,
          update_result, send_text_task, receive_task, event_queue,
          audio_input_queue, video_input_queue, send_audio_task,
          send_video_task, last_frame, last_message, turn_interrupted,
          speech_start_context, speech_start_frame,
          current_context,
          own_context, tool_result, peer_pending_context,
          peer_pending_context_hash,
          receive_pc, calls_left, function_responses, requested,
          responses_sent, session_pc, event, context_text, current_user_text,
          current_gemini_text, current_turn_audio, sink_last, emitted,
          forwarded, injected_this_turn, context_text_hash, enqueued_hash,
          turn_due_hash>>

\* context_manager.py:14-26, websocket_handler.py:16-26, gemini_session.py:19-21,
\* gemini_live.py:162-269 (all four tasks created, nothing received yet)
Created(pc, task) ==
    /\ pending_context = None
    /\ pending_context_hash = NoneHash
    /\ last_injected_context_hash = NoneHash
    /\ user_speech_detected = FALSE
    /\ context_injected_this_speech = FALSE
    /\ context_injected_count = 0
    /\ text_input_queue = <<>>
    /\ router_pc = "receive"
    /\ router_text = None
    /\ update_result = "none"
    /\ send_text_task = task
    /\ receive_task = task
    /\ event_queue = <<>>
    /\ audio_input_queue = <<>>
    /\ video_input_queue = <<>>
    /\ send_audio_task = task
    /\ send_video_task = task
    /\ last_frame = [n |-> 0, frame |-> None]
    /\ last_message = [n |-> 0, message |-> None]
    /\ turn_interrupted = FALSE
    /\ speech_start_context = None
    /\ speech_start_frame = 0
    /\ current_context = [selection |-> None, tree |-> None]
    /\ own_context = [selection |-> None, tree |-> None]
    /\ tool_result = NoCall
    /\ peer_pending_context = None
    /\ peer_pending_context_hash = NoneHash
    /\ receive_pc = "receive"
    /\ calls_left = 0
    /\ function_responses = <<>>
    /\ requested = <<>>
    /\ responses_sent = 0
    /\ session_pc = pc
    /\ event = None
    /\ context_text = None
    /\ current_user_text = NoneText
    /\ current_gemini_text = NoneText
    /\ current_turn_audio = <<>>
    /\ sink_last = NoCall
    /\ emitted = 0
    /\ forwarded = 0
    /\ injected_this_turn = 0
    /\ context_text_hash = NoneHash
    /\ enqueued_hash = NoneHash
    /\ turn_due_hash = NoneHash

\* the model channel is open, the four tasks are created, the session loop
\* waits for the first event
Init == Created("next", "running")

\* the session loop is about to open the model channel
\* (gemini_session.py:39, gemini_live.py:123); no task exists yet
InitConnect == Created("connect", "none")

\* mutant: the text queue has no bound, a put never waits
Full_Never(q) == FALSE

\* asyncio.Queue.full()
Full(q) == Len(q) >= TextQueueMaxsize

(***************************************************************************)
(* Inbound message router.                                                 *)
(***************************************************************************)
\* literal text frames: text that is not JSON, or JSON of no recognized type
LiteralTexts == {[raw |-> "hello"]}

\* mutant: the payload is stored without comparing fingerprints
update_context_AlwaysReplaces(payload) ==
    [pending_context |-> payload, pending_context_hash |-> Fingerprint(payload),
     ret |-> "True"]

\* mutant: the first payload stays pending, only the fingerprint follows
update_context_KeepsFirst(payload) ==
    LET new_hash == Fingerprint(payload)
    IN  IF new_hash # pending_context_hash
        THEN [pending_context |-> IF pending_context = None THEN payload
                                  ELSE pending_context,
              pending_context_hash |-> new_hash, ret |-> "True"]
        ELSE [pending_context |-> pending_context,
              pending_context_hash |-> pending_context_hash, ret |-> "False"]

\* ContextManager.update_context: the values it leaves in the two pending
\* fields and the value it returns
update_context(payload) ==
    LET new_hash == Fingerprint(payload)
    IN  IF new_hash # pending_context_hash
        THEN [pending_context |-> payload, pending_context_hash |-> new_hash,
              ret |-> "True"]
        ELSE [pending_context |-> pending_context,
              pending_context_hash |-> pending_context_hash, ret |-> "False"]

\* prompt_tools.set_current_context with the one keyword update_context
\* passes: selection=payload (context_manager.py:61) or tree=payload (:78);
\* the legacy branch does not call it
set_current_context(context, payload) ==
    IF IsSelection(payload) THEN [context EXCEPT !.selection = payload]
    ELSE IF IsTree(payload) THEN [context EXCEPT !.tree = payload]
    ELSE context

\* the mapping after an update_context call that returned ret
Published(context, payload, ret) ==
    IF ret = "True" THEN set_current_context(context, payload) ELSE context

\* the exception .get raises on a value that is no mapping
AttributeError == [exception |-> "AttributeError"]

\* prompt_tools.py:88-95
selection_info(sel) ==
    LET sel_data == Get(sel, "data", <<>>)
        selection == Get(sel_data, "selection", <<>>)
    IN  [fileName |-> Get(sel_data, "fileName", "unknown"),
         languageId |-> Get(sel_data, "languageId", "unknown"),
         text |-> Get(selection, "text", [head |-> "", rest |-> ""]),
         startLine |-> Get(Get(selection, "start", <<>>), "line", 0) + 1,
         endLine |-> Get(Get(selection, "end", <<>>), "line", 0) + 1]

\* prompt_tools.py:107-111; the structures of the model are shorter than
\* 2000 characters, so the [:2000] cut keeps them whole
tree_list(roots) ==
    [i \in DOMAIN roots |->
       IF IsMapping(roots[i])
       THEN [name |-> Get(roots[i], "name", None),
             structure |-> Get(roots[i], "tree", "")]
       ELSE [name |-> "workspace", structure |-> ""]]

\* mutant: the include flags are not looked at
get_editor_context_IgnoresFlags(context, include_selection, include_tree) ==
    LET sel == context.selection
        tree == context.tree
        has_selection == sel # None
                         /\ selection_info(sel).text # [head |-> "", rest |-> ""]
        roots == Get(Get(tree, "data", <<>>), "roots", <<>>)
        has_tree == tree # None /\ roots # <<>>
    IN  IF tree # None /\ ~IsMapping(Get(tree, "data", <<>>))
        THEN AttributeError
        ELSE [success |-> TRUE,
              has_selection |-> has_selection,
              has_tree |-> has_tree,
              selection |-> IF has_selection THEN selection_info(sel) ELSE None,
              tree |-> IF has_tree THEN tree_list(roots) ELSE NoneList,
              message |-> IF ~has_selection /\ ~has_tree
                          THEN <<"No context available">>
                          ELSE (IF has_selection
                                THEN <<"Selected code from",
                                       selection_info(sel).fileName>>
                                ELSE <<>>)
                               \o (IF has_tree THEN <<"Workspace tree">>
                                   ELSE <<>>)]

\* prompt_tools.get_editor_context (prompt_tools.py:66-122) on the mapping
\* of the module; tree_data.get raises when the data of the tree is no
\* mapping (line 105)
get_editor_context(context, include_selection, include_tree) ==
    LET sel == context.selection
        tree == context.tree
        has_selection == include_selection /\ sel # None
                         /\ selection_info(sel).text # [head |-> "", rest |-> ""]
        roots == Get(Get(tree, "data", <<>>), "roots", <<>>)
        has_tree == include_tree /\ tree # None /\ roots # <<>>
    IN  IF include_tree /\ tree # None /\ ~IsMapping(Get(tree, "data", <<>>))
        THEN AttributeError
        ELSE [success |-> TRUE,
              has_selection |-> has_selection,
              has_tree |-> has_tree,
              selection |-> IF has_selection THEN selection_info(sel) ELSE None,
              tree |-> IF has_tree THEN tree_list(roots) ELSE NoneList,
              message |-> IF ~has_selection /\ ~has_tree
                          THEN <<"No context available">>
                          ELSE (IF has_selection
                                THEN <<"Selected code from",
                                       selection_info(sel).fileName>>
                                ELSE <<>>)
                               \o (IF has_tree THEN <<"Workspace tree">>
                                   ELSE <<>>)]

\* the model calls the tool (get_prompt_tool_mapping, prompt_tools.py:227-233)
\* with the two flags
GetEditorContext(include_selection, include_tree) ==
    /\ tool_result' = [include_selection |-> include_selection,
                       include_tree |-> include_tree,
                       result |-> get_editor_context(current_context,
                                                     include_selection,
                                                     include_tree)]
    /\ UNCHANGED <<turn_history, last_frame, last_message, current_context, own_context,
                   peer, dispatch, media_queues, tracker, text_input_queue,
                   router, tasks, event_queue, session_pc, event, accumulators,
                   sink_last, emitted, forwarded, injection>>

\* the router of a second session of the process handles a context frame:
\* update_context of that session's ContextManager (context_manager.py:
\* 28-104) writes its own pending fields and calls set_current_context on
\* the mapping of the module
PeerContext(payload) ==
    /\ LET new_hash == Fingerprint(payload)
       IN  IF new_hash # peer_pending_context_hash
           THEN /\ peer_pending_context' = payload
                /\ peer_pending_context_hash' = new_hash
                /\ current_context' = set_current_context(current_context, payload)
           ELSE UNCHANGED <<peer, current_context>>
    /\ UNCHANGED <<turn_history, last_frame, last_message, own_context, tool_result,
                   dispatch, media_queues, tracker, text_input_queue, router,
                   tasks, event_queue, session_pc, event, accumulators,
                   sink_last, emitted, forwarded, injection>>

\* mutant: a context that replaces the pending one re-arms the injection
\* of the turn
RouterContext_Rearms(payload) ==
    /\ router_pc = "receive"
    /\ LET r == update_context(payload)
       IN  /\ pending_context' = r.pending_context
           /\ pending_context_hash' = r.pending_context_hash
           /\ update_result' = r.ret
           /\ current_context' = Published(current_context, payload, r.ret)
           /\ own_context' = Published(own_context, payload, r.ret)
           /\ context_injected_this_speech'
                = (IF r.ret = "True" THEN FALSE ELSE context_injected_this_speech)
           /\ UNCHANGED tool_result
    /\ UNCHANGED <<turn_history, last_frame, last_message, peer, dispatch, media_queues, last_injected_context_hash, user_speech_detected,
                   context_injected_count,
                   text_input_queue, router_pc, router_text, tasks, event_queue,
                   session_pc, event, accumulators, sink_last, emitted,
                   forwarded, injection>>

\* process_text_message on a context frame (message_processor.py:45-47)
RouterContext(payload) ==
    /\ router_pc = "receive"
    /\ LET r == update_context(payload)
       IN  /\ pending_context' = r.pending_context
           /\ pending_context_hash' = r.pending_context_hash
           /\ update_result' = r.ret
           /\ current_context' = Published(current_context, payload, r.ret)
           /\ own_context' = Published(own_context, payload, r.ret)
           /\ UNCHANGED tool_result
    /\ UNCHANGED <<turn_history, last_frame, last_message, peer, dispatch, media_queues, last_injected_context_hash, user_speech_detected,
                   context_injected_this_speech, context_injected_count,
                   text_input_queue, router_pc, router_text, tasks, event_queue,
                   session_pc, event, accumulators, sink_last, emitted,
                   forwarded, injection>>

\* an ill-typed context frame: update_context raises, process_text_message
\* lets it through (it catches JSONDecodeError only) and the except of
\* _receive_from_client, which encloses the loop, ends the reception loop
RouterRaises(payload) ==
    /\ router_pc = "receive"
    /\ router_pc' = "ended"
    /\ UNCHANGED <<turn_history, last_frame, last_message, tool_context, peer, dispatch, media_queues, tracker, text_input_queue, router_text, update_result, tasks,
                   event_queue, session_pc, event, accumulators, sink_last,
                   emitted, forwarded, injection>>

\* process_text_message on a literal text frame (message_processor.py:63):
\* the put completes at once unless the queue is full
RouterText(text) ==
    /\ router_pc = "receive"
    /\ IF Full(text_input_queue)
       THEN /\ router_pc' = "put_text"
            /\ router_text' = text
            /\ UNCHANGED text_input_queue
       ELSE /\ text_input_queue' = Append(text_input_queue, text)
            /\ UNCHANGED <<router_pc, router_text>>
    /\ UNCHANGED <<turn_history, last_frame, last_message, tool_context, peer, dispatch, media_queues, tracker, update_result, tasks, event_queue, session_pc, event,
                   accumulators, sink_last, emitted, forwarded, injection>>

\* the suspended put of process_text_message completes
RouterPutResumes ==
    /\ router_pc = "put_text"
    /\ ~Full(text_input_queue)
    /\ text_input_queue' = Append(text_input_queue, router_text)
    /\ router_pc' = "receive"
    /\ router_text' = None
    /\ UNCHANGED <<turn_history, last_frame, last_message, tool_context, peer, dispatch, media_queues, tracker, update_result, tasks, event_queue, session_pc, event,
                   accumulators, sink_last, emitted, forwarded, injection>>

(***************************************************************************)
(* Text frames (message_processor.py:34-63).  A frame is its text, raw;    *)
(* parsed is what json.loads makes of it, absent when the text is no JSON. *)
(***************************************************************************)
JSONDecodeError == [exception |-> "JSONDecodeError"]

\* json.loads(text)
Parse(text) == Get(text, "parsed", JSONDecodeError)

JsonFrame(raw, payload) == [raw |-> raw, parsed |-> payload]

\* a tree whose "data" is a JSON string: the fingerprint is taken and the
\* pending fields are written, then data.get raises (context_manager.py:79)
TreeCrash == [type |-> "context", subtype |-> "tree", data |-> NotAMapping]

\* image payloads: decodable data, no data, data base64 cannot decode
ImageOk == [type |-> "image", data |-> "aGk="]
ImageNoData == [type |-> "image"]
ImageBadData == [type |-> "image", data |-> "abc"]

\* type=context with another subtype, or none
ContextOther == [type |-> "context", subtype |-> "cursor"]
ContextNoSubtype == [type |-> "context"]

\* a text frame without characters
EmptyFrame == [raw |-> ""]

\* frames that are not JSON, JSON that is no object, objects of other types
PlainFrames ==
    LiteralTexts
    \cup {JsonFrame("42", NotAMapping),
          JsonFrame("{type: chat}", [type |-> "chat", text |-> "hi"])}

ContextFrames ==
    {JsonFrame("{selection A}", SelA), JsonFrame("{tree A}", TreeA),
     JsonFrame("{editor_context}", Legacy)}

IllTypedFrames ==
    {JsonFrame("{selection, data: str}", SelCrash),
     JsonFrame("{tree, data: str}", TreeCrash)}

ImageFrames ==
    {JsonFrame("{image}", ImageOk), JsonFrame("{image, no data}", ImageNoData),
     JsonFrame("{image, bad data}", ImageBadData)}

DroppedFrames ==
    {JsonFrame("{context/cursor}", ContextOther),
     JsonFrame("{context}", ContextNoSubtype)}

\* selections that agree in file name and the first 500 characters of text
SameFingerprintFrames ==
    {JsonFrame("{selection A}", SelA),
     JsonFrame("{selection A, lines 21-23}", SelA2),
     JsonFrame("{selection A, plaintext}", SelALang),
     JsonFrame("{selection A, longer}", SelATail)}

TextFrames ==
    PlainFrames \cup ContextFrames \cup IllTypedFrames \cup ImageFrames
    \cup DroppedFrames \cup {EmptyFrame}

\* mutant: the drop of the other type=context objects is missing
Route_NoLegacyDrop(text) ==
    LET payload == Parse(text)
    IN  IF payload = JSONDecodeError \/ ~IsMapping(payload) THEN "text"
        ELSE LET payload_type == Get(payload, "type", "")
                 payload_subtype == Get(payload, "subtype", "")
             IN  IF \/ payload_type = "context"
                       /\ payload_subtype \in {"selection", "tree"}
                    \/ payload_type = "editor_context"
                 THEN "context"
                 ELSE IF payload_type = "image" THEN "image"
                 ELSE "text"

\* mutant: context frames are also passed on as text
Route_ContextAsText(text) == "text"

\* the branch process_text_message takes (message_processor.py:36-63)
Route(text) ==
    LET payload == Parse(text)
    IN  IF payload = JSONDecodeError \/ ~IsMapping(payload) THEN "text"
        ELSE LET payload_type == Get(payload, "type", "")
                 payload_subtype == Get(payload, "subtype", "")
             IN  IF \/ payload_type = "context"
                       /\ payload_subtype \in {"selection", "tree"}
                    \/ payload_type = "editor_context"
                 THEN "context"
                 ELSE IF payload_type = "image" THEN "image"
                 ELSE IF payload_type = "context" THEN "dropped"
                 ELSE "text"

\* update_context raises before it writes a field: data.get on a value that
\* is no mapping (context_manager.py:41, 87)
RaisesBeforeUpdate(payload) ==
    (IsSelection(payload) \/ IsLegacy(payload))
    /\ ~IsMapping(Get(payload, "data", <<>>))

\* update_context raises after it wrote the pending fields
\* (context_manager.py:74-79)
RaisesAfterUpdate(payload) ==
    /\ IsTree(payload)
    /\ ~IsMapping(Get(payload, "data", <<>>))
    /\ TreeHash(payload) # pending_context_hash

\* base64.b64decode(payload["data"]) (message_processor.py:51): KeyError
\* without data, binascii.Error on wrong padding
Decodable(payload) == "data" \in DOMAIN payload /\ payload.data = "aGk="
Decoded(payload) == [jpeg |-> "hi"]

\* video_input_queue.full()
VideoFull == Len(video_input_queue) >= VideoQueueMaxsize

\* mutant: what json.loads returned is queued in place of the text
Stamped_Parsed(text, n) == [text |-> Parse(text), seq |-> n]

\* the text queue item of a text frame; seq is history: the number of the
\* frame among the text frames taken
Stamped(text, n) == [text |-> text, seq |-> n]

\* where the reception loop is after process_text_message raised: the try
\* of _receive_from_client encloses the while (websocket_handler.py:39-52)
AfterException == "ended"

\* _receive_from_client takes a text frame and process_text_message handles
\* it, up to its return or to its first suspension; message.get("text") is
\* falsy for the empty text, which no branch of the loop handles
\* (websocket_handler.py:43-49)
RouterFrame(text) ==
    LET kind == IF text.raw = "" THEN "dropped" ELSE Route(text)
        payload == Parse(text)
        n == last_frame.n + 1
    IN  /\ router_pc = "receive"
        /\ last_frame.n < MaxFrames
        /\ last_frame' = [n |-> n, frame |-> text]
        /\ CASE kind = "context" ->
                  /\ IF RaisesBeforeUpdate(payload)
                     THEN /\ router_pc' = AfterException
                          /\ UNCHANGED <<pending_context, pending_context_hash,
                                         update_result, tool_context>>
                     ELSE LET r == update_context(payload)
                          IN  /\ pending_context' = r.pending_context
                              /\ pending_context_hash' = r.pending_context_hash
                              /\ current_context'
                                   = Published(current_context, payload, r.ret)
                              /\ own_context'
                                   = Published(own_context, payload, r.ret)
                              /\ UNCHANGED tool_result
                              /\ IF RaisesAfterUpdate(payload)
                                 THEN /\ router_pc' = AfterException
                                      /\ UNCHANGED update_result
                                 ELSE /\ update_result' = r.ret
                                      /\ UNCHANGED router_pc
                  /\ UNCHANGED <<router_text, text_input_queue, video_input_queue>>
             [] kind = "image" ->
                  /\ IF ~Decodable(payload)
                     THEN /\ router_pc' = AfterException
                          /\ UNCHANGED <<router_text, video_input_queue>>
                     ELSE IF VideoFull
                     THEN /\ router_pc' = "put_video"
                          /\ router_text' = Decoded(payload)
                          /\ UNCHANGED video_input_queue
                     ELSE /\ video_input_queue'
                               = Append(video_input_queue, Decoded(payload))
                          /\ UNCHANGED <<router_pc, router_text>>
                  /\ UNCHANGED <<pending_context, pending_context_hash,
                                 update_result, text_input_queue, tool_context>>
             [] kind = "dropped" ->
                  UNCHANGED <<pending_context, pending_context_hash,
                              update_result, router_pc, router_text,
                              text_input_queue, video_input_queue,
                              tool_context>>
             [] OTHER ->
                  /\ IF Full(text_input_queue)
                     THEN /\ router_pc' = "put_text"
                          /\ router_text' = Stamped(text, n)
                          /\ UNCHANGED text_input_queue
                     ELSE /\ text_input_queue'
                               = Append(text_input_queue, Stamped(text, n))
                          /\ UNCHANGED <<router_pc, router_text>>
                  /\ UNCHANGED <<pending_context, pending_context_hash,
                                 update_result, video_input_queue, tool_context>>
        /\ UNCHANGED <<turn_history, last_message, peer, dispatch, last_injected_context_hash, user_speech_detected,
                       context_injected_this_speech, context_injected_count,
                       audio_input_queue, tasks, event_queue, session_pc, event,
                       accumulators, sink_last, emitted, forwarded, injection>>

\* the suspended put of an image completes (message_processor.py:52)
RouterVideoPutResumes ==
    /\ router_pc = "put_video"
    /\ ~VideoFull
    /\ video_input_queue' = Append(video_input_queue, router_text)
    /\ router_pc' = "receive"
    /\ router_text' = None
    /\ UNCHANGED <<turn_history, last_frame, last_message, tool_context, peer, dispatch, tracker, text_input_queue,
                   audio_input_queue, update_result, tasks, event_queue,
                   session_pc, event, accumulators, sink_last, emitted,
                   forwarded, injection>>

(***************************************************************************)
(* Video sender (gemini_live.py:144-152).                                  *)
(***************************************************************************)
\* one iteration: takes the head of the queue and transmits it; a transmit
\* failure is an exception no handler of send_video catches: the task ends
SendVideo(ok) ==
    /\ send_video_task = "running"
    /\ video_input_queue # <<>>
    /\ video_input_queue' = Tail(video_input_queue)
    /\ send_video_task' = IF ok THEN "running" ELSE "failed"
    /\ UNCHANGED <<turn_history, last_frame, last_message, tool_context, peer, dispatch, tracker, router, text_input_queue,
                   audio_input_queue, send_text_task, receive_task,
                   send_audio_task, event_queue, session_pc, event,
                   accumulators, sink_last, emitted, forwarded, injection>>

(***************************************************************************)
(* Binary frames (message_processor.py:21-32).                             *)
(***************************************************************************)
\* audio chunks a client sends
Chunks == {"chunk1", "chunk2"}

\* mutant: the audio queue is taken to have room always
AudioFull_Never == FALSE

\* audio_input_queue.full()
AudioFull == Len(audio_input_queue) >= AudioQueueMaxsize

\* process_audio_chunk: the put under wait_for completes at once when the
\* queue has room, and line 32 appends the chunk to the turn's audio; on a
\* full queue the put suspends, for at most the timeout
RouterAudio(chunk) ==
    /\ router_pc = "receive"
    /\ Len(current_turn_audio) < MaxTurnAudio
    /\ IF AudioFull
       THEN /\ router_pc' = "put_audio"
            /\ router_text' = [chunk |-> chunk]
            /\ UNCHANGED <<audio_input_queue, current_turn_audio>>
       ELSE /\ audio_input_queue' = Append(audio_input_queue, chunk)
            /\ current_turn_audio' = Append(current_turn_audio, chunk)
            /\ UNCHANGED <<router_pc, router_text>>
    /\ UNCHANGED <<turn_history, last_frame, last_message, tool_context, peer, dispatch, tracker, text_input_queue, video_input_queue,
                   update_result, tasks, event_queue, session_pc, event,
                   current_user_text, current_gemini_text, sink_last, emitted,
                   forwarded, injection>>

\* the audio sender made room before the timeout: the put completes
AudioPutResumes ==
    /\ router_pc = "put_audio"
    /\ ~AudioFull
    /\ audio_input_queue' = Append(audio_input_queue, router_text.chunk)
    /\ current_turn_audio' = Append(current_turn_audio, router_text.chunk)
    /\ router_pc' = "receive"
    /\ router_text' = None
    /\ UNCHANGED <<turn_history, last_frame, last_message, tool_context, peer, dispatch, tracker, text_input_queue, video_input_queue,
                   update_result, tasks, event_queue, session_pc, event,
                   current_user_text, current_gemini_text, sink_last, emitted,
                   forwarded, injection>>

\* the timeout of wait_for fires first (message_processor.py:26-27): the put
\* is cancelled, the chunk is not queued; line 32 still appends it
AudioPutTimesOut ==
    /\ router_pc = "put_audio"
    /\ current_turn_audio' = Append(current_turn_audio, router_text.chunk)
    /\ router_pc' = "receive"
    /\ router_text' = None
    /\ UNCHANGED <<turn_history, last_frame, last_message, tool_context, peer, dispatch, tracker, text_input_queue, media_queues,
                   update_result, tasks, event_queue, session_pc, event,
                   current_user_text, current_gemini_text, sink_last, emitted,
                   forwarded, injection>>

(***************************************************************************)
(* Audio sender (gemini_live.py:125-142).                                  *)
(***************************************************************************)
\* mutant: a transmit failure of the audio sender leaves its handler and
\* takes the other tasks of the session down
SendAudio_TearsDown(ok) ==
    /\ send_audio_task = "running"
    /\ audio_input_queue # <<>>
    /\ audio_input_queue' = Tail(audio_input_queue)
    /\ send_audio_task' = IF ok THEN "running" ELSE "failed"
    /\ send_video_task' = IF ok THEN send_video_task ELSE "cancelled"
    /\ send_text_task' = IF ok THEN send_text_task ELSE "cancelled"
    /\ receive_task' = IF ok THEN receive_task ELSE "cancelled"
    /\ UNCHANGED <<turn_history, last_frame, last_message, tool_context, peer, dispatch,
                   tracker, router, text_input_queue, video_input_queue,
                   event_queue, session_pc, event, accumulators, sink_last,
                   emitted, forwarded, injection>>

\* one iteration: takes the head of the queue and transmits it; a transmit
\* failure is logged, raised again and ends the task in its outer except
SendAudio(ok) ==
    /\ send_audio_task = "running"
    /\ audio_input_queue # <<>>
    /\ audio_input_queue' = Tail(audio_input_queue)
    /\ send_audio_task' = IF ok THEN "running" ELSE "ended"
    /\ UNCHANGED <<turn_history, last_frame, last_message, tool_context, peer, dispatch, tracker, router, text_input_queue,
                   video_input_queue, send_text_task, receive_task,
                   send_video_task, event_queue, session_pc, event,
                   accumulators, sink_last, emitted, forwarded, injection>>

(***************************************************************************)
(* Text sender (gemini_live.py:154-160).                                   *)
(***************************************************************************)
\* one iteration: takes the head of the queue and transmits it; a transmit
\* failure is an exception no handler of send_text catches: the task ends
SendText(ok) ==
    /\ send_text_task = "running"
    /\ text_input_queue # <<>>
    /\ text_input_queue' = Tail(text_input_queue)
    /\ send_text_task' = IF ok THEN "running" ELSE "failed"
    /\ UNCHANGED <<turn_history, last_frame, last_message, tool_context, peer, dispatch, media_queues, tracker, router, receive_task, senders, event_queue, session_pc, event,
                   accumulators, sink_last, emitted, forwarded, injection>>

(***************************************************************************)
(* Events (gemini_live.py:202-260).  seq is history: the position of the   *)
(* event among the events the receive loop has put.                        *)
(***************************************************************************)
UserEvent == [type |-> "user", text |-> <<"hi">>, seq |-> 0]
GeminiEvent == [type |-> "gemini", text |-> <<"ok">>, seq |-> 0]
TurnCompleteEvent == [type |-> "turn_complete", seq |-> 0]
InterruptedEvent == [type |-> "interrupted", seq |-> 0]
ErrorEvent == [type |-> "error", error |-> "receive failed", seq |-> 0]
\* the None receive_loop puts from its finally
Sentinel == None

\* the events of a sequence, numbered from base + 1
Stamp(evs, base) == [i \in DOMAIN evs |-> [evs[i] EXCEPT !.seq = base + i]]

Opt(cond, ev) == IF cond THEN <<ev>> ELSE <<>>

(***************************************************************************)
(* Receive loop (gemini_live.py:164-264).                                  *)
(***************************************************************************)
\* server content messages: the model turn ("none", "empty": no parts,
\* "parts"), the two transcriptions and the two flags
ContentMessages ==
    [model_turn : {"none", "empty", "parts"}, input_transcription : BOOLEAN,
     output_transcription : BOOLEAN, turn_complete : BOOLEAN,
     interrupted : BOOLEAN]

\* where the handling of a content message may raise: a callback
Raises == {"none", "audio_output_callback", "audio_interrupt_callback"}

CanRaise(m, raises) ==
    \/ raises = "none"
    \/ raises = "audio_output_callback" /\ m.model_turn = "parts"
    \/ raises = "audio_interrupt_callback" /\ m.model_turn # "empty" /\ m.interrupted

\* the events one content message puts on the event queue, in order
\* (gemini_live.py:177-217); the continue of line 188 skips the message
ContentEvents(m, raises) ==
    IF m.model_turn = "empty" THEN <<>>
    ELSE IF raises = "audio_output_callback" THEN <<>>
    ELSE Opt(m.input_transcription, UserEvent)
         \o Opt(m.output_transcription, GeminiEvent)
         \o Opt(m.turn_complete, TurnCompleteEvent)
         \o Opt(m.interrupted /\ raises = "none", InterruptedEvent)

\* mutant: the exception is swallowed without an error event
OnException_Swallowed(raised) == <<>>

\* gemini_live.py:256-264: the except puts the error event
\* (the finally puts the sentinel on every exit)
OnException(raised) == Opt(raised, ErrorEvent)

\* what receive_loop does with one server content message
HandleContent(m, raises) ==
    LET evs == ContentEvents(m, raises) \o OnException(raises # "none")
    IN  /\ receive_task = "running"
        /\ receive_pc = "receive"
        /\ CanRaise(m, raises)
        /\ emitted + Len(evs) <= MaxEvents
        /\ emitted' = emitted + Len(evs)
        /\ event_queue' = event_queue \o Stamp(evs, emitted)
                          \o Opt(raises # "none", Sentinel)
        /\ receive_task' = IF raises # "none" THEN "ended" ELSE "running"
        /\ UNCHANGED <<turn_history, last_frame, tool_context, peer, dispatch, media_queues, tracker, text_input_queue, router, send_text_task, senders,
                       session_pc, event, accumulators, sink_last, forwarded,
                       injection>>

\* one server content message is read and classified
ReceiveContent(m, raises) ==
    /\ HandleContent(m, raises)
    /\ UNCHANGED last_message

\* the same, with the message kept for the properties that speak about it
ReceiveMessage(m, raises) ==
    /\ last_message.n < MaxMessages
    /\ HandleContent(m, raises)
    /\ last_message' = [n |-> last_message.n + 1, message |-> m]

\* session.receive() raises (a receive failure on the model channel)
ReceiveFails ==
    /\ receive_task = "running"
    /\ receive_pc = "receive"
    /\ emitted + 1 <= MaxEvents
    /\ emitted' = emitted + 1
    /\ event_queue' = event_queue \o Stamp(OnException(TRUE), emitted) \o <<Sentinel>>
    /\ receive_task' = "ended"
    /\ UNCHANGED <<turn_history, last_frame, last_message, tool_context, peer, dispatch, media_queues, tracker, text_input_queue, router, send_text_task, senders, session_pc,
                   event, accumulators, sink_last, forwarded, injection>>

\* a CancelledError reaches receive_loop: while it waits for a message, or
\* at any await after the cancel() of the generator's finally.  It is no
\* Exception, so the except of line 256 lets it pass and only the finally
\* runs (gemini_live.py:261-264); the locals of the loop end with it
ReceiveCancelled ==
    /\ \/ receive_task = "cancelled"
       \/ receive_task = "running" /\ receive_pc = "receive"
    /\ event_queue' = event_queue \o <<Sentinel>>
    /\ receive_task' = "ended"
    /\ receive_pc' = "receive"
    /\ calls_left' = 0
    /\ function_responses' = <<>>
    /\ requested' = <<>>
    /\ responses_sent' = 0
    /\ UNCHANGED <<turn_history, last_frame, last_message, tool_context, peer, media_queues, tracker, text_input_queue, router, send_text_task, senders, session_pc,
                   event, accumulators, sink_last, emitted, forwarded, injection>>

(***************************************************************************)
(* Tool dispatcher (gemini_live.py:219-254).                               *)
(***************************************************************************)
\* get_prompt_tool_mapping
tool_mapping == {"generate_prompt", "get_editor_context"}

\* a function call: its name and what the tool does when invoked
FunctionCalls ==
    [name : tool_mapping \cup {"unknown_tool"},
     outcome : {"success", "failure", "raises"}]

\* the calls the model requests: generate_prompt in each outcome, a tool
\* that answers, a name outside the mapping
RequestedCalls ==
    {fc \in FunctionCalls :
        fc.name = "generate_prompt" \/ fc.outcome = "success"}

\* the result of invoking a tool (gemini_live.py:229-237): the mapping the
\* tool returns, or the "Error: ..." string made from its exception
ToolResult(fc) ==
    CASE fc.outcome = "raises" -> [str |-> "Error: tool failed"]
      [] fc.outcome = "failure" -> [success |-> FALSE]
      [] OTHER -> [success |-> TRUE, prompt |-> "do it"]

\* isinstance(result, dict)
IsDict(result) == "str" \notin DOMAIN result

\* mutant: every generate_prompt call is reported as prompt_ready
ToolEvent_ByNameOnly(fc) ==
    IF fc.name = "generate_prompt"
    THEN [type |-> "prompt_ready", prompt |-> Get(ToolResult(fc), "prompt", ""),
          seq |-> 0]
    ELSE [type |-> "tool_call", name |-> fc.name, args |-> <<>>,
          result |-> ToolResult(fc), seq |-> 0]

\* the event one invoked call emits (gemini_live.py:245-252)
ToolEvent(fc) ==
    LET result == ToolResult(fc)
    IN  IF fc.name = "generate_prompt" /\ IsDict(result)
           /\ Get(result, "success", FALSE)
        THEN [type |-> "prompt_ready", prompt |-> Get(result, "prompt", ""), seq |-> 0]
        ELSE [type |-> "tool_call", name |-> fc.name, args |-> <<>>,
              result |-> result, seq |-> 0]

\* mutant: a call whose tool raised gets no function response
FunctionResponse_SkipsFailed(fc, id) ==
    Opt(fc.name \in tool_mapping /\ fc.outcome # "raises",
        [name |-> fc.name, id |-> id, response |-> ToolResult(fc)])

\* mutant: a call of an unregistered name is answered with an error
FunctionResponse_AnswersUnknown(fc, id) ==
    <<[name |-> fc.name, id |-> id,
       response |-> IF fc.name \in tool_mapping THEN ToolResult(fc)
                    ELSE [str |-> "Error: unknown tool"]]>>

\* the function response appended for a call (gemini_live.py:228-243):
\* none when the name is not registered
FunctionResponse(fc, id) ==
    Opt(fc.name \in tool_mapping,
        [name |-> fc.name, id |-> id, response |-> ToolResult(fc)])

\* mutant: the responses gathered so far are transmitted after each call
AllHandled_EachCall == TRUE

\* the for loop over the function calls is over (gemini_live.py:224, 254)
AllHandled == calls_left = 0

\* a tool-call message with n function calls is read (gemini_live.py:219-223);
\* with none, the loop goes on to the next message
ReceiveToolCall(n) ==
    /\ receive_task = "running"
    /\ receive_pc = "receive"
    /\ n > 0
    /\ receive_pc' = "dispatch"
    /\ calls_left' = n
    /\ function_responses' = <<>>
    /\ requested' = <<>>
    /\ responses_sent' = 0
    /\ UNCHANGED <<turn_history, last_frame, last_message, tool_context, peer, media_queues, tracker, text_input_queue, router, tasks, event_queue,
                   session_pc, event, accumulators, sink_last, emitted,
                   forwarded, injection>>

\* one function call of the message is handled (gemini_live.py:224-252): a
\* registered tool is invoked, answered and reported; any other is skipped
DispatchCall(fc) ==
    LET known == fc.name \in tool_mapping
        evs == Opt(known, ToolEvent(fc))
    IN  /\ receive_task = "running"
        /\ receive_pc = "dispatch"
        /\ calls_left > 0
        /\ emitted + Len(evs) <= MaxEvents
        /\ calls_left' = calls_left - 1
        /\ function_responses' =
             function_responses \o FunctionResponse(fc, Len(requested) + 1)
        /\ requested' = Append(requested, fc)
        /\ emitted' = emitted + Len(evs)
        /\ event_queue' = event_queue \o Stamp(evs, emitted)
        /\ UNCHANGED <<turn_history, last_frame, last_message, tool_context, peer, media_queues, tracker, text_input_queue, router, tasks, receive_pc,
                       responses_sent, session_pc, event, accumulators,
                       sink_last, forwarded, injection>>

\* the responses are transmitted in one batch (gemini_live.py:254); ok: the
\* transmission succeeds.  The list is not read again: line 220 replaces it
\* on the next tool-call message
SendToolResponse(ok) ==
    /\ receive_task = "running"
    /\ receive_pc = "dispatch"
    /\ AllHandled
    /\ ~ok => emitted + 1 <= MaxEvents
    /\ function_responses' = <<>>
    /\ requested' = <<>>
    /\ responses_sent' = responses_sent + 1
    /\ receive_pc' = "receive"
    /\ emitted' = emitted + Len(OnException(~ok))
    /\ event_queue' = event_queue \o Stamp(OnException(~ok), emitted)
                      \o Opt(~ok, Sentinel)
    /\ receive_task' = (IF ok THEN "running" ELSE "ended")
    /\ UNCHANGED <<turn_history, last_frame, last_message, tool_context, peer, media_queues, tracker, text_input_queue, router, send_text_task, senders, calls_left,
                   session_pc, event, accumulators, sink_last, forwarded,
                   injection>>

(***************************************************************************)
(* Context Tracker operations on turn transitions.                         *)
(***************************************************************************)
\* mutant: the start of speech is not recorded
on_user_speech_started_Forgets ==
    user_speech_detected' = user_speech_detected

\* ContextManager.on_user_speech_started (context_manager.py:137-145)
on_user_speech_started ==
    user_speech_detected' = (IF ~user_speech_detected THEN TRUE
                             ELSE user_speech_detected)

\* mutant: the injection flag outlives the turn
reset_for_new_turn_KeepsInjected ==
    /\ user_speech_detected' = FALSE
    /\ UNCHANGED context_injected_this_speech

\* ContextManager.reset_for_new_turn (context_manager.py:147-150)
reset_for_new_turn ==
    /\ user_speech_detected' = FALSE
    /\ context_injected_this_speech' = FALSE

\* mutant: the formatted text is put without the test of line 126
InjectNeeded_NoTextTest ==
    /\ pending_context # None
    /\ ~context_injected_this_speech
    /\ pending_context_hash # last_injected_context_hash

\* mutant: the comparison with the last injected fingerprint is missing
InjectNeeded_NoHashCheck ==
    /\ pending_context # None
    /\ ~context_injected_this_speech
    /\ format_editor_context_for_gemini(pending_context) # EmptyText

\* mutant: injects only once speech had been detected before
InjectNeeded_Late ==
    /\ user_speech_detected
    /\ pending_context # None
    /\ ~context_injected_this_speech
    /\ pending_context_hash # last_injected_context_hash
    /\ format_editor_context_for_gemini(pending_context) # EmptyText

\* the three early returns of inject_context_if_needed and the test of the
\* formatted text (context_manager.py:112-126): TRUE when it goes on to put
InjectNeeded ==
    /\ pending_context # None
    /\ ~context_injected_this_speech
    /\ pending_context_hash # last_injected_context_hash
    /\ format_editor_context_for_gemini(pending_context) # EmptyText

\* history: a context is pending whose fingerprint differs from the last
\* injected one and whose formatting yields text
Due ==
    /\ pending_context # None
    /\ pending_context_hash # last_injected_context_hash
    /\ format_editor_context_for_gemini(pending_context) # EmptyText

\* context_manager.py:128-131: the put has completed; the three fields are
\* written from the pending hash as it is now
InjectCompletes(text, text_hash) ==
    /\ text_input_queue' = Append(text_input_queue, text)
    /\ last_injected_context_hash' = pending_context_hash
    /\ context_injected_this_speech' = TRUE
    /\ context_injected_count' = context_injected_count + 1
    /\ injected_this_turn' = injected_this_turn + 1
    /\ enqueued_hash' = text_hash

(***************************************************************************)
(* Session loop (gemini_session.py:37-114), one definition per branch of   *)
(* _process_event.  A branch runs on into the event_callback call of line  *)
(* 114 unless it suspends before; raises: that call raises.                *)
(***************************************************************************)
SystemError(message) == [type |-> "system_error", message |-> message]

\* mutant: cancel() reaches no task
Cancelled_Spares(task) == task

\* the finally of the generator (gemini_live.py:283-289): cancel() on a task
\* that has ended changes nothing
Cancelled(task) == IF task = "running" THEN "cancelled" ELSE task

GeneratorExits ==
    /\ send_audio_task' = Cancelled(send_audio_task)
    /\ send_video_task' = Cancelled(send_video_task)
    /\ send_text_task' = Cancelled(send_text_task)
    /\ receive_task' = Cancelled(receive_task)
    /\ session_pc' = "ended"

\* mutant: only the type of the event is passed on
Forwarded_TypeOnly(ev) == [type |-> ev.type, seq |-> ev.seq]

\* the event passed to event_callback (gemini_session.py:114)
Forwarded(ev) == ev

\* gemini_session.py:113-114, and what follows the call: an exception goes
\* to the except of start_session; after an error event the generator
\* breaks (gemini_live.py:278-281); otherwise the loop takes the next event
Forward(ev, raises) ==
    /\ sink_last' = Forwarded(ev)
    /\ forwarded' = forwarded + 1
    /\ IF raises
       THEN /\ session_pc' = "except"
            /\ UNCHANGED tasks
       ELSE IF ev.type = "error"
            THEN GeneratorExits
            ELSE /\ session_pc' = "next"
                 /\ UNCHANGED tasks

\* gemini_session.py:68-78
ProcessUser(ev, raises) ==
    /\ current_user_text' = ev.text
    /\ UNCHANGED <<current_gemini_text, current_turn_audio, pending_context,
                   pending_context_hash>>
    /\ turn_due_hash' = (IF ~user_speech_detected /\ Due
                         THEN pending_context_hash ELSE turn_due_hash)
    /\ IF ~user_speech_detected
       THEN /\ on_user_speech_started
            /\ IF InjectNeeded
               THEN LET text == format_editor_context_for_gemini(pending_context)
                    IN  IF Full(text_input_queue)
                        THEN \* the put suspends
                             /\ session_pc' = "inject"
                             /\ event' = ev
                             /\ context_text' = text
                             /\ context_text_hash' = pending_context_hash
                             /\ UNCHANGED <<text_input_queue,
                                            last_injected_context_hash,
                                            context_injected_this_speech,
                                            context_injected_count,
                                            injected_this_turn, enqueued_hash,
                                            sink_last, forwarded, tasks>>
                        ELSE /\ InjectCompletes(text, pending_context_hash)
                             /\ Forward(ev, raises)
                             /\ UNCHANGED <<event, context_text, context_text_hash>>
               ELSE /\ Forward(ev, raises)
                    /\ UNCHANGED <<event, text_input_queue,
                                   last_injected_context_hash,
                                   context_injected_this_speech,
                                   context_injected_count, context_text,
                                   context_text_hash, enqueued_hash,
                                   injected_this_turn>>
       ELSE /\ Forward(ev, raises)
            /\ UNCHANGED <<event, text_input_queue, tracker, context_text,
                           context_text_hash, enqueued_hash, injected_this_turn>>

\* gemini_session.py:80-84
ProcessGemini(ev, raises) ==
    /\ current_gemini_text' = (IF current_gemini_text # NoneText
                               THEN current_gemini_text \o ev.text
                               ELSE ev.text)
    /\ Forward(ev, raises)
    /\ UNCHANGED <<event, tracker, text_input_queue, current_user_text,
                   current_turn_audio, injection>>

\* mutant: the error branch sends nothing of its own
ProcessError_Silent(ev, raises) ==
    /\ Forward(ev, raises)
    /\ UNCHANGED <<event, tracker, text_input_queue, accumulators, injection>>

\* gemini_session.py:86-91: the event_callback call with the synthesized
\* system_error; the event itself is forwarded once that call has returned
ProcessError(ev, raises) ==
    /\ sink_last' = SystemError(<<"Gemini connection error", ev.error>>)
    /\ session_pc' = (IF raises THEN "except" ELSE "forward")
    /\ event' = ev
    /\ UNCHANGED <<tracker, text_input_queue, accumulators, injection,
                   forwarded, tasks>>

\* gemini_session.py:93-106
ProcessTurnComplete(ev, raises) ==
    /\ reset_for_new_turn
    /\ current_turn_audio' = <<>>
    /\ current_user_text' = NoneText
    /\ current_gemini_text' = NoneText
    /\ injected_this_turn' = 0
    /\ turn_due_hash' = NoneHash
    /\ Forward(ev, raises)
    /\ UNCHANGED <<event, pending_context, pending_context_hash,
                   last_injected_context_hash, context_injected_count,
                   text_input_queue, context_text, context_text_hash,
                   enqueued_hash>>

\* mutant: an interruption is handled like the end of the turn
ProcessInterrupted_Resets(ev, raises) ==
    /\ reset_for_new_turn
    /\ current_turn_audio' = <<>>
    /\ Forward(ev, raises)
    /\ UNCHANGED <<event, pending_context, pending_context_hash,
                   last_injected_context_hash, context_injected_count,
                   text_input_queue, current_user_text, current_gemini_text,
                   injection>>

\* mutant: an interruption forgets what was injected last
\* mutant: the interruption clears the turn texts like a turn_complete
ProcessInterrupted_ClearsTexts(ev, raises) ==
    /\ current_turn_audio' = <<>>
    /\ current_user_text' = NoneText
    /\ current_gemini_text' = NoneText
    /\ Forward(ev, raises)
    /\ UNCHANGED <<event, tracker, text_input_queue, injection>>

ProcessInterrupted_Forgets(ev, raises) ==
    /\ last_injected_context_hash' = NoneHash
    /\ current_turn_audio' = <<>>
    /\ Forward(ev, raises)
    /\ UNCHANGED <<event, pending_context, pending_context_hash,
                   user_speech_detected, context_injected_this_speech,
                   context_injected_count, text_input_queue, current_user_text,
                   current_gemini_text, injection>>

\* gemini_session.py:108-111
ProcessInterrupted(ev, raises) ==
    /\ current_turn_audio' = <<>>
    /\ Forward(ev, raises)
    /\ UNCHANGED <<event, tracker, text_input_queue, current_user_text,
                   current_gemini_text, injection>>

\* tool_call and prompt_ready match no branch
ProcessOther(ev, raises) ==
    /\ Forward(ev, raises)
    /\ UNCHANGED <<event, tracker, text_input_queue, accumulators, injection>>

\* gemini_session.py:62-114
process_event(ev, raises) ==
    CASE ev.type = "user" -> ProcessUser(ev, raises)
      [] ev.type = "gemini" -> ProcessGemini(ev, raises)
      [] ev.type = "error" -> ProcessError(ev, raises)
      [] ev.type = "turn_complete" -> ProcessTurnComplete(ev, raises)
      [] ev.type = "interrupted" -> ProcessInterrupted(ev, raises)
      [] OTHER -> ProcessOther(ev, raises)

\* mutant: events are taken while an earlier one is still being processed
MayTakeNext_Concurrent == session_pc \in {"next", "inject"}

\* the session loop is at its async for, asking the generator for an event
MayTakeNext == session_pc = "next"

\* the generator yields the next event (gemini_live.py:272-282) and
\* _process_event runs on it
TakeEvent(raises) ==
    /\ MayTakeNext
    /\ event_queue # <<>>
    /\ Head(event_queue) # Sentinel
    /\ event_queue' = Tail(event_queue)
    /\ process_event(Head(event_queue), raises)
    /\ UNCHANGED <<last_frame, last_message, tool_context, peer, dispatch, media_queues, router, emitted>>

SessionNext(raises) ==
    /\ TakeEvent(raises)
    /\ UNCHANGED turn_history

\* the same, with the interruptions of the running turn kept for the
\* properties that speak about them
SessionTracked(raises) ==
    /\ TakeEvent(raises)
    /\ turn_interrupted'
         = CASE Head(event_queue).type = "turn_complete" -> FALSE
             [] Head(event_queue).type = "interrupted"
                  /\ current_user_text # NoneText -> TRUE
             [] OTHER -> turn_interrupted
    /\ speech_start_context'
         = CASE Head(event_queue).type = "turn_complete" -> None
             [] Head(event_queue).type = "user"
                  /\ ~user_speech_detected -> pending_context
             [] OTHER -> speech_start_context
    /\ speech_start_frame'
         = CASE Head(event_queue).type = "turn_complete" -> 0
             [] Head(event_queue).type = "user"
                  /\ ~user_speech_detected -> last_frame.n
             [] OTHER -> speech_start_frame

\* the generator takes the sentinel: break, finally, the session loop ends
SessionEnds ==
    /\ MayTakeNext
    /\ event_queue # <<>>
    /\ Head(event_queue) = Sentinel
    /\ event_queue' = Tail(event_queue)
    /\ GeneratorExits
    /\ UNCHANGED <<turn_history, last_frame, last_message, tool_context, peer, dispatch, media_queues, tracker, text_input_queue, router, event, accumulators,
                   sink_last, emitted, forwarded, injection>>

\* the suspended put of inject_context_if_needed completes
\* (context_manager.py:128-133) and _process_event goes on to line 114
InjectResumes(raises) ==
    /\ session_pc = "inject"
    /\ ~Full(text_input_queue)
    /\ InjectCompletes(context_text, context_text_hash)
    /\ context_text' = None
    /\ context_text_hash' = NoneHash
    /\ UNCHANGED turn_due_hash
    /\ Forward(event, raises)
    /\ event' = None
    /\ UNCHANGED <<turn_history, last_frame, last_message, tool_context, peer, dispatch, media_queues, pending_context, pending_context_hash, user_speech_detected,
                   router, event_queue, accumulators, emitted>>

\* the system_error call of the error branch has returned: line 114
SessionForward(raises) ==
    /\ session_pc = "forward"
    /\ Forward(event, raises)
    /\ event' = None
    /\ UNCHANGED <<turn_history, last_frame, last_message, tool_context, peer, dispatch, media_queues, tracker, text_input_queue, router, event_queue,
                   accumulators, emitted, injection>>

\* mutant: the except re-raises without telling the client
SessionExcept_Silent ==
    /\ session_pc = "except"
    /\ session_pc' = "failed"
    /\ event' = None
    /\ UNCHANGED <<turn_history, last_frame, last_message, tool_context, peer, dispatch, media_queues, tracker, text_input_queue, router, tasks, event_queue,
                   accumulators, emitted, forwarded, injection, sink_last>>

\* the except of start_session (gemini_session.py:50-60): one more
\* event_callback call, then the exception leaves the session loop
SessionExcept ==
    /\ session_pc = "except"
    /\ sink_last' = SystemError(<<"Gemini connection lost">>)
    /\ session_pc' = "failed"
    /\ event' = None
    /\ UNCHANGED <<turn_history, last_frame, last_message, tool_context, peer, dispatch, media_queues, tracker, text_input_queue, router, tasks, event_queue,
                   accumulators, emitted, forwarded, injection>>

\* the session loop asks the generator for its first event: the generator
\* opens the model channel (gemini_live.py:123) and creates the four tasks
\* (266-269), or the connect raises out of the generator into the except of
\* start_session (gemini_session.py:50)
Connect(ok) ==
    /\ session_pc = "connect"
    /\ IF ok
       THEN /\ session_pc' = "next"
            /\ send_audio_task' = "running"
            /\ send_video_task' = "running"
            /\ send_text_task' = "running"
            /\ receive_task' = "running"
       ELSE /\ session_pc' = "except"
            /\ UNCHANGED tasks
    /\ UNCHANGED <<turn_history, last_frame, last_message, tool_context, peer, dispatch,
                   media_queues, tracker, text_input_queue, router,
                   event_queue, event, accumulators, sink_last, emitted,
                   forwarded, injection>>

\* the exception has left the session loop while the generator was suspended
\* at its yield (gemini_live.py:280, 282): when the event loop finalizes the
\* generator, GeneratorExit is raised at the yield and the finally of lines
\* 283-289 cancels the four tasks
GeneratorClosed ==
    /\ session_pc = "failed"
    /\ receive_task # "none"
    /\ send_audio_task' = Cancelled(send_audio_task)
    /\ send_video_task' = Cancelled(send_video_task)
    /\ send_text_task' = Cancelled(send_text_task)
    /\ receive_task' = Cancelled(receive_task)
    /\ session_pc' = "closed"
    /\ UNCHANGED <<turn_history, last_frame, last_message, tool_context, peer, dispatch,
                   media_queues, tracker, text_input_queue, router,
                   event_queue, event, accumulators, sink_last, emitted,
                   forwarded, injection>>

(***************************************************************************)
(* Specifications.                                                         *)
(***************************************************************************)
\* the steps of the session loop
Session ==
    \/ \E r \in BOOLEAN : SessionNext(r)
    \/ SessionEnds
    \/ \E r \in BOOLEAN : InjectResumes(r)
    \/ \E r \in BOOLEAN : SessionForward(r)
    \/ SessionExcept

\* server messages that carry speech and turn boundaries only
TurnMessages ==
    {m \in ContentMessages : m.model_turn = "none" /\ ~m.output_transcription}

\* Context injection: changing selections and an unformattable tree, literal
\* text, the text sender, a receive loop that reads turn messages or fails.
Next ==
    \/ \E p \in {SelA, SelB, TreeBad} : RouterContext(p)
    \/ \E p \in IllTyped : RouterRaises(p)
    \/ \E t \in LiteralTexts : RouterText(t)
    \/ RouterPutResumes
    \/ SendText(TRUE)
    \/ \E m \in TurnMessages : ReceiveContent(m, "none")
    \/ ReceiveFails
    \/ ReceiveCancelled
    \/ Session

Spec == Init /\ [][Next]_vars

\* Context updates: every payload, with turns that start and complete.
NextUpdate ==
    \/ \E p \in Payloads : RouterContext(p)
    \/ \E t \in LiteralTexts : RouterText(t)
    \/ RouterPutResumes
    \/ SendText(TRUE)
    \/ \E m \in {m \in TurnMessages : ~m.interrupted} : ReceiveContent(m, "none")
    \/ SessionNext(FALSE)
    \/ InjectResumes(FALSE)

SpecUpdate == Init /\ [][NextUpdate]_vars

\* the server messages whose handling gets past the test of the parts
\* (gemini_live.py:186-188)
HandledMessages == {m \in ContentMessages : m.model_turn # "empty"}

\* Event pipeline: every such server message, tool calls and failures, with one
\* selection on the client side and a text input queue that always has room.
NextEvents ==
    \/ RouterContext(SelA)
    \/ SendText(TRUE)
    \/ \E m \in HandledMessages, r \in Raises : ReceiveContent(m, r)
    \/ ReceiveFails
    \/ ReceiveCancelled
    \/ \E n \in 1..MaxCalls : ReceiveToolCall(n)
    \/ \E fc \in RequestedCalls : DispatchCall(fc)
    \/ \E ok \in BOOLEAN : SendToolResponse(ok)
    \/ \E r \in BOOLEAN : SessionNext(r)
    \/ SessionEnds
    \/ \E r \in BOOLEAN : SessionForward(r)
    \/ SessionExcept

SpecEvents == Init /\ [][NextEvents]_vars

\* Tool dispatcher: tool-call messages with every combination of function
\* calls between content messages, failures of the channel, and the session
\* loop consuming the events; no client input.
NextTools ==
    \/ \E m \in TurnMessages : ReceiveContent(m, "none")
    \/ ReceiveFails
    \/ ReceiveCancelled
    \/ \E n \in 1..MaxCalls : ReceiveToolCall(n)
    \/ \E fc \in FunctionCalls : DispatchCall(fc)
    \/ \E ok \in BOOLEAN : SendToolResponse(ok)
    \/ SessionNext(FALSE)
    \/ SessionEnds
    \/ SessionForward(FALSE)

SpecTools == Init /\ [][NextTools]_vars

\* Inbound router: text frames of every kind against the text and video
\* senders.
NextRouter ==
    \/ \E t \in TextFrames : RouterFrame(t)
    \/ RouterPutResumes
    \/ RouterVideoPutResumes
    \/ SendText(TRUE)
    \/ SendVideo(TRUE)

SpecRouter == Init /\ [][NextRouter]_vars

\* turn boundaries alone
BoundaryMessages ==
    {m \in TurnMessages : ~m.input_transcription
                           /\ m.turn_complete # m.interrupted}

\* Audio path: binary frames against an audio sender that consumes or does
\* not, with turns that end or are interrupted.
NextAudio ==
    \/ \E c \in Chunks : RouterAudio(c)
    \/ AudioPutResumes
    \/ AudioPutTimesOut
    \/ \E ok \in BOOLEAN : SendAudio(ok)
    \/ \E m \in BoundaryMessages : ReceiveContent(m, "none")
    \/ SessionNext(FALSE)

\* the timer of wait_for fires unless the put has completed before
SpecAudio == Init /\ [][NextAudio]_vars /\ WF_vars(AudioPutTimesOut)

\* Server content: every content message, with callbacks that raise or do
\* not, and the session loop consuming the events.
NextContent ==
    \/ \E m \in ContentMessages, r \in Raises : ReceiveMessage(m, r)
    \/ SessionNext(FALSE)
    \/ SessionForward(FALSE)

SpecContent == Init /\ [][NextContent]_vars

\* Senders: audio, text and images from the client against senders whose
\* transmissions succeed or fail, a receive loop that reads turn boundaries
\* or fails, and the session loop.
NextSenders ==
    \/ RouterAudio("chunk1")
    \/ AudioPutResumes
    \/ AudioPutTimesOut
    \/ \E t \in LiteralTexts : RouterText(t)
    \/ RouterPutResumes
    \/ RouterFrame(JsonFrame("{image}", ImageOk))
    \/ RouterVideoPutResumes
    \/ \E ok \in BOOLEAN : SendAudio(ok)
    \/ \E ok \in BOOLEAN : SendVideo(ok)
    \/ \E ok \in BOOLEAN : SendText(ok)
    \/ \E m \in BoundaryMessages : ReceiveContent(m, "none")
    \/ ReceiveFails
    \/ SessionNext(FALSE)
    \/ SessionForward(FALSE)

SpecSenders == Init /\ [][NextSenders]_vars

\* the session loop is a task of its own: it takes an event that waits on
\* the event queue, and goes on after a call of the sink has returned
SpecSendersFair ==
    /\ SpecSenders
    /\ WF_vars(SessionNext(FALSE))
    /\ WF_vars(SessionForward(FALSE))

\* Life cycle of the multiplexer: the connect, an audio sender that may
\* fail, a receive loop that reads turn boundaries, handles a tool call or
\* fails, a client sink that raises, and the end of the generator.
NextLifecycle ==
    \/ \E ok \in BOOLEAN : Connect(ok)
    \/ RouterAudio("chunk1")
    \/ AudioPutResumes
    \/ AudioPutTimesOut
    \/ \E ok \in BOOLEAN : SendAudio(ok)
    \/ \E m \in BoundaryMessages : ReceiveContent(m, "none")
    \/ ReceiveFails
    \/ ReceiveCancelled
    \/ ReceiveToolCall(1)
    \/ DispatchCall([name |-> "get_editor_context", outcome |-> "success"])
    \/ \E ok \in BOOLEAN : SendToolResponse(ok)
    \/ \E r \in BOOLEAN : SessionNext(r)
    \/ SessionEnds
    \/ \E r \in BOOLEAN : SessionForward(r)
    \/ SessionExcept
    \/ GeneratorClosed

SpecLifecycle == InitConnect /\ [][NextLifecycle]_vars

\* the context frames of this session and of a second one
ToolPayloads == {SelA, SelEmpty, TreeA, TreeBad, TreeEmpty, Legacy}
PeerPayloads == {SelPeer, TreePeer}

\* Tool context: two sessions of one process receive context frames, the
\* model calls get_editor_context in the first.
NextToolContext ==
    \/ \E p \in ToolPayloads : RouterContext(p)
    \/ RouterFrame(JsonFrame("{tree, data: str}", TreeCrash))
    \/ \E p \in PeerPayloads : PeerContext(p)
    \/ \E s, t \in BOOLEAN : GetEditorContext(s, t)

SpecToolContext == Init /\ [][NextToolContext]_vars

\* Injection against the text sender: one selection, literal text that
\* fills the text input queue, a text sender whose transmissions succeed or
\* fail, turns that start and complete, a client sink that never raises.
NextInject ==
    \/ RouterContext(SelA)
    \/ \E t \in LiteralTexts : RouterText(t)
    \/ RouterPutResumes
    \/ \E ok \in BOOLEAN : SendText(ok)
    \/ \E m \in {m \in TurnMessages : ~m.interrupted} : ReceiveContent(m, "none")
    \/ SessionNext(FALSE)
    \/ InjectResumes(FALSE)

SpecInject == Init /\ [][NextInject]_vars

\* Interruptions: two selections and a tree the formatter fails on, which
\* replace each other, literal text, the text sender, turns that start, are
\* interrupted and complete.
NextInterrupt ==
    \/ \E p \in {SelA, SelB, TreeBad} : RouterContext(p)
    \/ \E t \in LiteralTexts : RouterText(t)
    \/ RouterPutResumes
    \/ SendText(TRUE)
    \/ \E m \in TurnMessages : ReceiveContent(m, "none")
    \/ SessionTracked(FALSE)
    \/ InjectResumes(FALSE)

SpecInterrupt == Init /\ [][NextInterrupt]_vars

\* Accumulators: audio chunks of the client and server messages carrying
\* transcriptions of both sides, turn ends and interruptions.
NextAccumulators ==
    \/ \E c \in Chunks : RouterAudio(c)
    \/ AudioPutResumes
    \/ AudioPutTimesOut
    \/ SendAudio(TRUE)
    \/ \E m \in {m \in ContentMessages : m.model_turn = "none"} :
          ReceiveContent(m, "none")
    \/ SessionNext(FALSE)

SpecAccumulators == Init /\ [][NextAccumulators]_vars

\* Queues: literal text, images and a selection from the client, the blocks
\* the session injects, both senders.
NextQueues ==
    \/ \E t \in LiteralTexts \cup {JsonFrame("{image}", ImageOk),
                                   JsonFrame("{selection A}", SelA)} :
          RouterFrame(t)
    \/ RouterPutResumes
    \/ RouterVideoPutResumes
    \/ SendText(TRUE)
    \/ SendVideo(TRUE)
    \/ \E m \in {m \in TurnMessages : ~m.interrupted} : ReceiveContent(m, "none")
    \/ SessionNext(FALSE)
    \/ InjectResumes(FALSE)

SpecQueues == Init /\ [][NextQueues]_vars

\* Fingerprints: frames of selections that agree in the fingerprinted fields,
\* a selection that does not, literal text, the text sender, turns.
NextFingerprint ==
    \/ \E t \in SameFingerprintFrames \cup {JsonFrame("{selection B}", SelB)}
                \cup LiteralTexts : RouterFrame(t)
    \/ RouterPutResumes
    \/ SendText(TRUE)
    \/ \E m \in {m \in TurnMessages : ~m.interrupted} : ReceiveContent(m, "none")
    \/ SessionTracked(FALSE)
    \/ InjectResumes(FALSE)

SpecFingerprint == Init /\ [][NextFingerprint]_vars

\* the session loop and the text sender are tasks of their own: the session
\* loop takes an event that waits; its suspended put gets a slot if slots
\* keep coming free, however often the router takes one first; the text
\* sender takes a text that waits (whether its transmission succeeds is not
\* the scheduler's choice)
SpecInjectFair ==
    /\ SpecInject
    /\ WF_vars(SessionNext(FALSE))
    /\ SF_vars(InjectResumes(FALSE))
    /\ WF_vars(\E ok \in BOOLEAN : SendText(ok))

(***************************************************************************)
(* Steps the properties speak about.                                       *)
(***************************************************************************)
\* the session loop takes an event from the event queue
TakesEvent ==
    /\ event_queue # <<>>
    /\ Head(event_queue) # Sentinel
    /\ event_queue' = Tail(event_queue)

\* the session loop takes an event of the given type and processes it
Takes(type) == TakesEvent /\ Head(event_queue).type = type

\* the first user transcript of a turn is taken
TakesFirstUser == Takes("user") /\ ~user_speech_detected

\* a context block is appended to the text input queue
BlockEnqueued ==
    /\ Len(text_input_queue') = Len(text_input_queue) + 1
    /\ "block" \in DOMAIN text_input_queue'[Len(text_input_queue')]

(***************************************************************************)
(* C1.  At most one context block is enqueued on the text input queue      *)
(* between the first user transcript of a turn and the TurnComplete that   *)
(* ends it: the number of blocks enqueued since the last processed         *)
(* TurnComplete never exceeds one.                                         *)
(***************************************************************************)
C1_AtMostOneInjectionPerTurn == injected_this_turn <= 1

\* one block was enqueued this turn, a changed context is pending, and a
\* later user transcript of the same turn has been forwarded
C1_Witness ==
    /\ injected_this_turn = 1
    /\ context_injected_this_speech
    /\ pending_context_hash # last_injected_context_hash
    /\ sink_last.type = "user"
    /\ sink_last.seq = 3
    /\ context_injected_count = 1
    /\ enqueued_hash # NoneHash
    /\ session_pc = "next"

(***************************************************************************)
(* C2.  No block is enqueued whose fingerprint equals                      *)
(* last_injected_context_hash, and a speech start at which the pending     *)
(* fingerprint equals last_injected_context_hash (as after a TurnComplete  *)
(* with no context update in between) enqueues nothing and suspends on no  *)
(* put.                                                                    *)
(***************************************************************************)
C2_NoReinjectionOfSameFingerprint ==
    [][/\ BlockEnqueued => enqueued_hash' # last_injected_context_hash
       /\ (Takes("user") /\ pending_context_hash = last_injected_context_hash)
            => (text_input_queue' = text_input_queue /\ session_pc' # "inject")
      ]_vars

\* a new turn's speech start was processed with the context injected in an
\* earlier turn still pending: nothing was injected
C2_Witness ==
    /\ user_speech_detected
    /\ ~context_injected_this_speech
    /\ injected_this_turn = 0
    /\ pending_context # None
    /\ pending_context_hash = last_injected_context_hash
    /\ context_injected_count = 1
    /\ sink_last.type = "user"

(***************************************************************************)
(* C3 as stated.  Whenever the TurnComplete of a user turn is processed,   *)
(* no formattable pending context is left whose fingerprint differs from   *)
(* last_injected_context_hash: every changed context that was set in the   *)
(* turn has been delivered.                                                *)
(***************************************************************************)
C3_Original ==
    [][(Takes("turn_complete") /\ user_speech_detected) => ~Due]_vars

(***************************************************************************)
(* C3 amended.  If, when the first user transcript of a turn is processed, *)
(* a context is pending whose fingerprint differs from                     *)
(* last_injected_context_hash and whose formatting yields text, then a     *)
(* block formatted from that context has been enqueued on the text input   *)
(* queue before the TurnComplete of that turn is processed.                *)
(***************************************************************************)
C3_DueContextDeliveredBeforeTurnComplete ==
    [][(Takes("turn_complete") /\ turn_due_hash # NoneHash)
         => (injected_this_turn >= 1 /\ enqueued_hash = turn_due_hash)]_vars

\* the second event, a TurnComplete, has been processed, and the turn it
\* ends began with a user transcript at which a block was enqueued
C3_Witness ==
    /\ sink_last.type = "turn_complete"
    /\ sink_last.seq = 2
    /\ context_injected_count = 1
    /\ enqueued_hash # NoneHash
    /\ ~user_speech_detected

(***************************************************************************)
(* C4.  update_context(payload) returns False and leaves pending_context   *)
(* and pending_context_hash unchanged exactly when the fingerprint of the  *)
(* payload equals pending_context_hash; otherwise it stores the payload    *)
(* and its fingerprint and returns True.  A payload with the fingerprint   *)
(* of the one just handled is then answered False.                         *)
(***************************************************************************)
C4_UpdateContextContract ==
    [][\A p \in Payloads :
         RouterContext(p) =>
           /\ IF Fingerprint(p) = pending_context_hash
              THEN /\ update_result' = "False"
                   /\ pending_context' = pending_context
                   /\ pending_context_hash' = pending_context_hash
              ELSE /\ update_result' = "True"
                   /\ pending_context' = p
                   /\ pending_context_hash' = Fingerprint(p)
           /\ \A q \in Payloads :
                Fingerprint(q) = Fingerprint(p) => update_context(q).ret' = "False"
      ]_vars

\* a payload with the fingerprint of the pending one was answered False
C4_Witness ==
    /\ update_result = "False"
    /\ pending_context = SelA

(***************************************************************************)
(* C5.  Processing Interrupted changes none of                             *)
(* context_injected_this_speech, user_speech_detected and                  *)
(* last_injected_context_hash; processing TurnComplete sets both flags to  *)
(* false and leaves last_injected_context_hash unchanged.                  *)
(***************************************************************************)
C5_InterruptedKeepsInjectionState ==
    [][/\ Takes("interrupted")
            => UNCHANGED <<context_injected_this_speech, user_speech_detected,
                           last_injected_context_hash>>
       /\ Takes("turn_complete")
            => /\ ~user_speech_detected'
               /\ ~context_injected_this_speech'
               /\ UNCHANGED last_injected_context_hash
      ]_vars

\* an Interrupted was processed in a turn with an injection: both flags and
\* the last injected fingerprint are still set
C5_Witness ==
    /\ sink_last.type = "interrupted"
    /\ user_speech_detected
    /\ context_injected_this_speech
    /\ last_injected_context_hash # NoneHash

(***************************************************************************)
(* C6.  context_injected_this_speech implies that a context block was      *)
(* enqueued since the last processed TurnComplete (or since the start),    *)
(* and the flag goes from true to false only in the processing of a        *)
(* TurnComplete.                                                           *)
(***************************************************************************)
C6_InjectedFlagMeansEnqueued ==
    /\ [](context_injected_this_speech => injected_this_turn >= 1)
    /\ [][(context_injected_this_speech /\ ~context_injected_this_speech')
            => Takes("turn_complete")]_vars

\* the flag is set and an Interrupted has been processed since
C6_Witness ==
    /\ context_injected_this_speech
    /\ injected_this_turn = 1
    /\ sink_last.type = "interrupted"
    /\ sink_last.seq = 2

(***************************************************************************)
(* C7.  No update_context step takes place between the start and the       *)
(* completion of one inject_context_if_needed call: while the call is      *)
(* suspended on its put, the pending context does not change.              *)
(***************************************************************************)
C7_NoUpdateDuringInject ==
    [][session_pc = "inject"
         => UNCHANGED <<pending_context, pending_context_hash>>]_vars

(***************************************************************************)
(* C8.  Events reach the client sink in the order in which the receive     *)
(* loop put them: the event queue holds the latest events in that order,   *)
(* the k-th event passed to the sink is the k-th event put, and an event   *)
(* is taken for processing only when every event before it has been        *)
(* processed and forwarded.                                                *)
(***************************************************************************)
QueuedEvents == SelectSeq(event_queue, LAMBDA e : e # Sentinel)

C8_EventsForwardedInEmissionOrder ==
    /\ [](\A i \in DOMAIN QueuedEvents :
            QueuedEvents[i].seq = emitted - Len(QueuedEvents) + i)
    /\ [][/\ forwarded' # forwarded
               => (forwarded' = forwarded + 1 /\ sink_last'.seq = forwarded')
          /\ TakesEvent => Head(event_queue).seq = forwarded + 1
         ]_vars

\* the third event has been forwarded after an injection that had to wait
\* for room in the text input queue
C8_Witness ==
    /\ forwarded = 3
    /\ sink_last.type \in {"user", "gemini", "turn_complete", "interrupted"}
    /\ sink_last.seq = 3
    /\ context_injected_count = 1
    /\ Len(text_input_queue) = TextQueueMaxsize
    /\ text_input_queue[TextQueueMaxsize] = format_editor_context_for_gemini(SelA)

(***************************************************************************)
(* C9.  Every event the multiplexer yields is passed to the client sink    *)
(* unchanged and once, after the local state updates for it (the turn      *)
(* texts, the turn flags, a due injection, the synthesized system_error),  *)
(* and the end-of-stream sentinel is never passed to the sink.             *)
(***************************************************************************)
C9_EveryEventForwardedUnchanged ==
    /\ [](sink_last # Sentinel)
    /\ [][forwarded' # forwarded =>
            /\ sink_last' = (IF session_pc = "next" THEN Head(event_queue) ELSE event)
            /\ sink_last'.seq = forwarded + 1
            /\ forwarded' = forwarded + 1
            /\ sink_last'.type = "user"
                 => (current_user_text' = sink_last'.text /\ user_speech_detected')
            /\ sink_last'.type = "gemini" => current_gemini_text' # NoneText
            /\ sink_last'.type = "turn_complete"
                 => /\ ~user_speech_detected'
                    /\ ~context_injected_this_speech'
                    /\ current_user_text' = NoneText
                    /\ current_gemini_text' = NoneText
            /\ (\/ session_pc = "inject"
                \/ sink_last'.type = "user" /\ ~user_speech_detected /\ InjectNeeded)
                 => BlockEnqueued
            /\ sink_last'.type = "error" => sink_last.type = "system_error"
         ]_vars

\* a prompt_ready event has been passed to the sink as the third event
C9_Witness ==
    /\ sink_last.type = "prompt_ready"
    /\ sink_last.prompt = "do it"
    /\ forwarded = 3
    /\ session_pc = "next"

(***************************************************************************)
(* C10.  On an Error event the session loop passes a synthesized           *)
(* system_error to the client sink, and orchestration stops: once the      *)
(* Error event is being processed, the session loop takes no further event *)
(* and forwards nothing but the Error event itself.                        *)
(***************************************************************************)
C10_ErrorEndsOrchestration ==
    [][/\ Takes("error")
            => /\ sink_last' = SystemError(<<"Gemini connection error",
                                             Head(event_queue).error>>)
               /\ session_pc' \in {"forward", "except"}
       /\ TakesEvent => sink_last.type \notin {"error", "system_error"}
       /\ forwarded' # forwarded
            => /\ sink_last.type # "error"
               /\ sink_last.type = "system_error" => sink_last'.type = "error"
       /\ session_pc \in {"ended", "failed"}
            => UNCHANGED <<session_pc, sink_last, forwarded>>
      ]_vars

\* an Error event was processed with other events behind it: the
\* system_error and the Error event went to the sink and the loop has ended
C10_Witness ==
    /\ sink_last.type = "error"
    /\ sink_last.seq = 3
    /\ session_pc = "ended"
    /\ send_text_task = "cancelled"
    /\ event_queue = <<Sentinel>>

(***************************************************************************)
(* Steps of the receive loop the properties speak about.                   *)
(***************************************************************************)
\* what a step puts on the event queue (the session loop only takes)
Puts ==
    IF /\ Len(event_queue') > Len(event_queue)
       /\ SubSeq(event_queue', 1, Len(event_queue)) = event_queue
    THEN SubSeq(event_queue', Len(event_queue) + 1, Len(event_queue'))
    ELSE <<>>

\* reading or classifying a server message raises, or answering it does
ReceiveRaises ==
    \/ \E m \in ContentMessages, r \in Raises \ {"none"} : ReceiveContent(m, r)
    \/ ReceiveFails
    \/ SendToolResponse(FALSE)

\* one function call of the current tool-call message is handled
Dispatches == Len(requested') = Len(requested) + 1

\* the call a dispatching step handles, and its position in the message
Call == requested'[Len(requested')]
CallId == Len(requested')

(***************************************************************************)
(* C11.  When handling a server message raises, the receive loop puts      *)
(* exactly one Error event, and the sentinel right after it, and ends; on  *)
(* every termination, cancellation included, the last thing it puts is the *)
(* sentinel, and once ended it puts nothing more.                          *)
(***************************************************************************)
C11_ErrorThenSentinel ==
    /\ [][ReceiveRaises =>
            LET p == Puts
            IN  /\ Len(p) >= 2
                /\ p[Len(p)] = Sentinel
                /\ p[Len(p) - 1].type = "error"
                /\ Cardinality({i \in DOMAIN p : p[i].type = "error"}) = 1
                /\ Cardinality({i \in DOMAIN p : p[i] = Sentinel}) = 1
                /\ receive_task' = "ended"]_vars
    /\ [][(receive_task # "ended" /\ receive_task' = "ended")
            => (Puts # <<>> /\ Puts[Len(Puts)] = Sentinel)]_vars
    /\ [][receive_task = "ended"
            => (Puts = <<>> /\ receive_task' = "ended")]_vars

\* the interrupt callback raised after the user transcript of its message
\* had been put: the transcript, the Error event and the sentinel are queued
C11_Witness ==
    /\ receive_task = "ended"
    /\ Len(event_queue) = 3
    /\ event_queue[1].type = "user"
    /\ event_queue[2].type = "error"
    /\ event_queue[3] = Sentinel

(***************************************************************************)
(* C12.  When a registered tool raises, its call is answered with the      *)
(* string "Error: <message>": a function response with the call's id is    *)
(* appended, one tool_call event with that result is put and no Error      *)
(* event, and the receive loop stays in the message, with one call less to *)
(* handle.                                                                 *)
(***************************************************************************)
C12_ToolExceptionBecomesResult ==
    [][(Dispatches /\ Call.name \in tool_mapping /\ Call.outcome = "raises")
         => /\ function_responses' =
                 Append(function_responses,
                        [name |-> Call.name, id |-> CallId,
                         response |-> [str |-> "Error: tool failed"]])
            /\ Len(Puts) = 1
            /\ Puts[1].type = "tool_call"
            /\ Puts[1].name = Call.name
            /\ Puts[1].result = [str |-> "Error: tool failed"]
            /\ receive_task' = "running"
            /\ receive_pc' = "dispatch"
            /\ calls_left' = calls_left - 1]_vars

\* generate_prompt raised as the first call of a message; the second call
\* was handled, the responses were transmitted and a later message was read
C12_Witness ==
    /\ receive_task = "running"
    /\ responses_sent = 1
    /\ Len(event_queue) = 3
    /\ event_queue[1].type = "tool_call"
    /\ event_queue[1].name = "generate_prompt"
    /\ event_queue[1].result = [str |-> "Error: tool failed"]
    /\ event_queue[2].type = "prompt_ready"
    /\ event_queue[3].type = "user"

(***************************************************************************)
(* C13.  For a tool-call message with at least one function call the       *)
(* responses are transmitted once, when every call of the message has been *)
(* handled and before the next message is read; the batch holds one        *)
(* response per call with a registered name, with that call's id and name, *)
(* in the order of the calls, and nothing else.                            *)
(***************************************************************************)
\* send_tool_response is called
Transmits == responses_sent' = responses_sent + 1

C13_OneBatchPerToolCallMessage ==
    /\ [](responses_sent <= 1)
    /\ [](receive_pc = "dispatch" => responses_sent = 0)
    /\ [][Transmits =>
            /\ receive_pc = "dispatch"
            /\ calls_left = 0
            /\ Len(requested) >= 1
            /\ \A j \in DOMAIN function_responses :
                 /\ function_responses[j].id \in DOMAIN requested
                 /\ requested[function_responses[j].id].name
                      = function_responses[j].name
                 /\ function_responses[j].name \in tool_mapping
            /\ \A j, k \in DOMAIN function_responses :
                 j < k => function_responses[j].id < function_responses[k].id
            /\ \A i \in DOMAIN requested :
                 requested[i].name \in tool_mapping
                   => \E j \in DOMAIN function_responses :
                        function_responses[j].id = i]_vars
    /\ [][(receive_pc = "dispatch" /\ receive_pc' = "receive"
           /\ receive_task' = "running") => Transmits]_vars

\* the batch of a message has been transmitted; the message's two calls
\* were registered tools, in this order
C13_Witness ==
    /\ responses_sent = 1
    /\ receive_pc = "receive"
    /\ receive_task = "running"
    /\ Len(event_queue) = 2
    /\ event_queue[1].type = "tool_call"
    /\ event_queue[1].name = "get_editor_context"
    /\ event_queue[2].type = "prompt_ready"

(***************************************************************************)
(* C14.  Each invocation of a registered tool puts exactly one event:      *)
(* prompt_ready with the result's prompt text when the name is             *)
(* generate_prompt and the result is a mapping with a truthy success, and  *)
(* in every other case (a generate_prompt call that raised or did not      *)
(* succeed, any other tool) a tool_call event with name, args and result.  *)
(***************************************************************************)
C14_OneEventPerInvocation ==
    [][(Dispatches /\ Call.name \in tool_mapping) =>
         LET result == CASE Call.outcome = "raises" -> [str |-> "Error: tool failed"]
                         [] Call.outcome = "failure" -> [success |-> FALSE]
                         [] OTHER -> [success |-> TRUE, prompt |-> "do it"]
             ready == Call.name = "generate_prompt" /\ Call.outcome = "success"
         IN  /\ Len(Puts) = 1
             /\ ready => /\ Puts[1].type = "prompt_ready"
                         /\ Puts[1].prompt = "do it"
             /\ ~ready => /\ Puts[1].type = "tool_call"
                          /\ Puts[1].name = Call.name
                          /\ Puts[1].args = <<>>
                          /\ Puts[1].result = result]_vars

\* a generate_prompt call without success was reported as tool_call, a
\* successful one after it as prompt_ready
C14_Witness ==
    /\ Len(event_queue) = 2
    /\ event_queue[1].type = "tool_call"
    /\ event_queue[1].name = "generate_prompt"
    /\ event_queue[1].result = [success |-> FALSE]
    /\ event_queue[2].type = "prompt_ready"
    /\ event_queue[2].prompt = "do it"

(***************************************************************************)
(* C15.  A function call whose name is not in the tool mapping is skipped: *)
(* handling it appends no function response and puts no event, the loop    *)
(* goes on with the calls left, and the batch transmitted for the message  *)
(* holds no response with the id of such a call.                           *)
(***************************************************************************)
C15_UnknownToolSkipped ==
    /\ [][(Dispatches /\ Call.name \notin tool_mapping)
            => /\ function_responses' = function_responses
               /\ Puts = <<>>
               /\ emitted' = emitted
               /\ receive_task' = "running"
               /\ receive_pc' = "dispatch"
               /\ calls_left' = calls_left - 1]_vars
    /\ [][Transmits =>
            \A i \in DOMAIN requested :
              requested[i].name \notin tool_mapping
                => \A j \in DOMAIN function_responses :
                     function_responses[j].id # i]_vars

\* the first call of a message named no registered tool and the second was
\* generate_prompt: only the second is answered and reported
C15_Witness ==
    /\ Len(requested) = 2
    /\ requested[1].name = "unknown_tool"
    /\ requested[2] = [name |-> "generate_prompt", outcome |-> "success"]
    /\ calls_left = 0
    /\ Len(function_responses) = 1
    /\ function_responses[1].id = 2
    /\ function_responses[1].name = "generate_prompt"
    /\ emitted = 1
    /\ event_queue = <<[type |-> "prompt_ready", prompt |-> "do it", seq |-> 1]>>

(***************************************************************************)
(* C16.  The audio queue never holds more than its capacity.  A chunk that *)
(* arrives while the queue is full and stays full is dropped: the queue is *)
(* left as it was and the router is back at receiving frames; and whether  *)
(* or not the audio sender ever consumes, a router waiting to put a chunk  *)
(* is eventually receiving again.                                          *)
(***************************************************************************)
C16_FullAudioQueueDropsChunk ==
    /\ [](Len(audio_input_queue) <= AudioQueueMaxsize)
    /\ [][(router_pc = "put_audio" /\ router_pc' # "put_audio" /\ AudioFull)
            => /\ audio_input_queue' = audio_input_queue
               /\ router_pc' = "receive"
               /\ current_turn_audio'
                    = Append(current_turn_audio, router_text.chunk)]_vars
    /\ (router_pc = "put_audio") ~> (router_pc = "receive")

\* no chunk was ever consumed and no turn has ended: the two chunks sent
\* first fill the queue, the third was dropped and the router receives again
C16_Witness ==
    /\ audio_input_queue = <<"chunk1", "chunk1">>
    /\ current_turn_audio = <<"chunk1", "chunk1", "chunk2">>
    /\ Len(audio_input_queue) = AudioQueueMaxsize
    /\ router_pc = "receive"
    /\ emitted = 0

(***************************************************************************)
(* C17.  Malformed client input never ends the message reception loop:     *)
(* after any client text frame (no JSON, an image without data or with     *)
(* data base64 cannot decode, a context payload with an ill-typed field)   *)
(* the loop is still running and takes the next frame.                     *)
(***************************************************************************)
C17_RouterSurvivesMalformedInput == router_pc # "ended"

\* a step in which the reception loop takes a text frame
TakesFrame == last_frame'.n = last_frame.n + 1

\* the frame that step takes
Taken == last_frame'.frame

(***************************************************************************)
(* C18.  A text frame that parses to type=context with subtype selection   *)
(* or tree, or to type=editor_context, is passed to update_context (the    *)
(* pending fingerprint is the frame's afterwards, and the result tells     *)
(* whether it changed) and pushes nothing on the audio, video or text      *)
(* queue, at once or by a suspended put: the text queue never holds the    *)
(* text of such a frame.                                                   *)
(***************************************************************************)
C18_ContextFrameNeverEnqueued ==
    /\ [][TakesFrame /\ Taken \in ContextFrames \cup IllTypedFrames
            => /\ UNCHANGED <<text_input_queue, audio_input_queue,
                              video_input_queue, router_text>>
               /\ router_pc' \in {"receive", "ended"}
               /\ Taken \in ContextFrames
                    => /\ pending_context_hash' = Fingerprint(Parse(Taken))
                       /\ pending_context' \in {Parse(Taken), pending_context}
                       /\ update_result'
                            = IF pending_context_hash = Fingerprint(Parse(Taken))
                              THEN "False" ELSE "True"]_vars
    /\ [](\A i \in 1..Len(text_input_queue) :
            text_input_queue[i].text \notin ContextFrames \cup IllTypedFrames)

C18_Witness ==
    /\ last_frame.frame = JsonFrame("{selection A}", SelA)
    /\ last_frame.n >= 2
    /\ pending_context = SelA
    /\ update_result = "True"
    /\ text_input_queue # <<>>

(***************************************************************************)
(* C19.  A text frame that has characters and is unparsable as JSON, or    *)
(* parses to something that is not a context, editor_context or image      *)
(* payload, is pushed unchanged to the text input queue exactly once (at   *)
(* once, or when its suspended put completes), and such frames leave the   *)
(* queue for the model in the order in which they were received.           *)
(***************************************************************************)
\* a frame of the set, when taken, is put on the text queue as it came, or
\* its put suspends on the full queue holding it
PushedOnce(frames) ==
    TakesFrame /\ Taken \in frames
      => LET item == [text |-> Taken, seq |-> last_frame'.n]
         IN  \/ text_input_queue' = Append(text_input_queue, item)
             \/ /\ Full(text_input_queue)
                /\ router_pc' = "put_text"
                /\ router_text' = item
                /\ UNCHANGED text_input_queue

\* the queue and the suspended put hold plain frames only, each once, in
\* the order of their reception
InReceptionOrder ==
    /\ \A i, j \in 1..Len(text_input_queue) :
         i < j => text_input_queue[i].seq < text_input_queue[j].seq
    /\ router_pc = "put_text"
         => /\ router_text.text \in PlainFrames
            /\ router_text.seq = last_frame.n
            /\ \A i \in 1..Len(text_input_queue) :
                 text_input_queue[i].seq < router_text.seq
    /\ \A i \in 1..Len(text_input_queue) :
         /\ text_input_queue[i].text \in PlainFrames
         /\ text_input_queue[i].seq <= last_frame.n

\* the suspended put completes with the frame it holds, an item leaves the
\* queue at its head and one enters at its end
FifoSteps ==
    /\ (router_pc = "put_text" /\ router_pc' # "put_text")
         => text_input_queue' = Append(text_input_queue, router_text)
    /\ Len(text_input_queue') < Len(text_input_queue)
         => text_input_queue' = Tail(text_input_queue)
    /\ Len(text_input_queue') > Len(text_input_queue)
         => SubSeq(text_input_queue', 1, Len(text_input_queue))
              = text_input_queue
    /\ Len(text_input_queue') = Len(text_input_queue)
         => UNCHANGED text_input_queue

C19_PlainFramePushedOnceInOrder ==
    /\ [][PushedOnce(PlainFrames) /\ FifoSteps]_vars
    /\ []InReceptionOrder

\* the statement for every text frame that is no JSON, the empty one too
C19_Original ==
    /\ [][PushedOnce(PlainFrames \cup {EmptyFrame}) /\ FifoSteps]_vars
    /\ []InReceptionOrder

C19_Witness ==
    /\ router_pc = "put_text"
    /\ router_text = [text |-> JsonFrame("42", NotAMapping), seq |-> 4]
    /\ Len(text_input_queue) = TextQueueMaxsize
    /\ text_input_queue[1].seq = 2
    /\ last_frame.n = 4

(***************************************************************************)
(* C20.  A text frame that parses to type=context with a subtype other     *)
(* than selection or tree, or with none, is dropped: it changes no queue   *)
(* and no field of the context tracker, and the reception loop goes on.    *)
(***************************************************************************)
C20_OtherContextFrameDropped ==
    [][TakesFrame /\ Taken \in DroppedFrames
         => UNCHANGED <<text_input_queue, audio_input_queue,
                        video_input_queue, tracker, router_pc,
                        router_text>>]_vars

C20_Witness ==
    /\ last_frame.frame = JsonFrame("{context/cursor}", ContextOther)
    /\ last_frame.n >= 3
    /\ pending_context = SelA
    /\ text_input_queue # <<>>
    /\ router_pc = "receive"

\* a step in which a transmission of the audio sender fails
AudioSendFails ==
    /\ audio_input_queue # <<>>
    /\ audio_input_queue' = Tail(audio_input_queue)
    /\ send_audio_task = "running"
    /\ send_audio_task' # "running"

(***************************************************************************)
(* C21.  A transmit failure in the audio sender ends the audio sender and  *)
(* nothing else: the task ends without an exception, the video sender, the *)
(* text sender and the receive loop stay as they are, nothing (no error,   *)
(* no sentinel) is put on the event queue, and the session loop is not     *)
(* reached by an exception.                                                *)
(***************************************************************************)
C21_AudioFailureEndsAudioSenderOnly ==
    [][AudioSendFails
         => /\ send_audio_task' = "ended"
            /\ UNCHANGED <<send_video_task, send_text_task, receive_task,
                           event_queue, session_pc, sink_last>>]_vars

C21_Witness ==
    /\ send_audio_task = "ended"
    /\ send_video_task = "running"
    /\ send_text_task = "running"
    /\ receive_task = "running"
    /\ session_pc = "next"
    /\ sink_last.type = "turn_complete"
    /\ text_input_queue # <<>>
    /\ audio_input_queue # <<>>

\* a transmission of a sender has failed
SendFailed ==
    \/ send_audio_task = "ended"
    \/ send_video_task = "failed"
    \/ send_text_task = "failed"

\* the receive loop has failed: its error event waits on the event queue
ReceiveFailed ==
    \E i \in 1..Len(event_queue) : event_queue[i].type = "error"

\* the client sink is called with a system_error event
Surfaced == sink_last.type = "system_error"

(***************************************************************************)
(* C22.  Every transport error on the model channel, a send failure of the *)
(* audio, video or text sender as well as a receive failure, is followed   *)
(* by a system_error event at the client sink.                             *)
(***************************************************************************)
C22_TransportErrorSurfaced ==
    /\ ReceiveFailed ~> Surfaced
    /\ SendFailed ~> Surfaced

\* a step in which the event loop of the generator ends: on the sentinel,
\* after a yielded error event, or when the generator is closed under a
\* consumer that has left its loop
GeneratorLoopEnds ==
    /\ session_pc \notin {"ended", "closed"}
    /\ session_pc' \in {"ended", "closed"}

\* cancel() was called on the task of these two states
CancelCalled(before, after) ==
    IF before = "running" THEN after = "cancelled" ELSE after = before

(***************************************************************************)
(* C23.  When the event loop of the generator ends, on the sentinel, after *)
(* a yielded error event or by the consumer's teardown, the audio sender,  *)
(* the video sender, the text sender and the receive loop are all          *)
(* cancelled in that step, whatever state each is in, and none of them is  *)
(* running afterwards.                                                     *)
(***************************************************************************)
C23_AllTasksCancelledAtGeneratorEnd ==
    /\ [][GeneratorLoopEnds
            => /\ CancelCalled(send_audio_task, send_audio_task')
               /\ CancelCalled(send_video_task, send_video_task')
               /\ CancelCalled(send_text_task, send_text_task')
               /\ CancelCalled(receive_task, receive_task')]_vars
    /\ [](session_pc \in {"ended", "closed"}
            => /\ send_audio_task # "running"
               /\ send_video_task # "running"
               /\ send_text_task # "running"
               /\ receive_task # "running")

C23_Witness ==
    /\ session_pc = "closed"
    /\ send_audio_task = "ended"
    /\ send_video_task = "cancelled"
    /\ send_text_task = "cancelled"
    /\ receive_task = "cancelled"
    /\ receive_pc = "dispatch"

\* a step in which the receive loop handles a server content message, and
\* that message
TakesMessage == last_message'.n = last_message.n + 1
Message == last_message'.message

\* the turn_complete events on a queue
TurnCompletes(q) ==
    Cardinality({i \in 1..Len(q) : q[i].type = "turn_complete"})

(***************************************************************************)
(* C24.  Every server content message flagged turn-complete that the       *)
(* receive loop handles without an exception puts exactly one              *)
(* turn_complete event on the event queue, whatever else it carries: a     *)
(* model turn with or without parts, transcriptions, the interrupted flag. *)
(***************************************************************************)
C24_TurnCompleteAlwaysEmitted ==
    [][TakesMessage /\ Message.turn_complete /\ receive_task' = "running"
         => TurnCompletes(event_queue') = TurnCompletes(event_queue) + 1]_vars

\* the block the formatter makes of the pending selection
SelectionBlock == FormatSelection(pending_context.data)

\* the first user transcript of a turn is taken while a selection is pending
\* that was not injected before
TakesFirstUserOnNewSelection ==
    /\ TakesFirstUser
    /\ IsSelection(pending_context)
    /\ pending_context_hash # last_injected_context_hash

\* the block of the pending selection names its file and its lines, counted
\* from one, and is put on the text input queue (the put completes or
\* suspends on the full queue), once
SelectionBlockPut ==
    TakesFirstUserOnNewSelection
      => /\ SelectionBlock.file = pending_context.data.fileName
         /\ SelectionBlock.lines
              = <<pending_context.data.selection.start.line + 1,
                  pending_context.data.selection["end"].line + 1>>
         /\ \/ /\ text_input_queue' = Append(text_input_queue, SelectionBlock)
               /\ injected_this_turn' = 1
            \/ /\ Full(text_input_queue)
               /\ session_pc' = "inject"
               /\ context_text' = SelectionBlock
               /\ UNCHANGED text_input_queue

\* while the put of the block is suspended, a frame the router receives
\* does not get on the text input queue ahead of the block
BlockGoesFirst ==
    (session_pc = "inject" /\ router_pc = "receive"
       /\ Len(text_input_queue') > Len(text_input_queue))
      => text_input_queue' = Append(text_input_queue, context_text)

(***************************************************************************)
(* C25.  When a selection payload has been received and the first user     *)
(* transcript of a turn arrives, exactly one context block is enqueued; it *)
(* names the payload's file and the lines start.line+1 to end.line+1, and  *)
(* it gets on the text input queue before any other text queued after the  *)
(* speech start.                                                           *)
(***************************************************************************)
C25_SelectionBlockFirst ==
    /\ [][SelectionBlockPut /\ BlockGoesFirst]_vars
    /\ [](injected_this_turn <= 1)

\* a user transcript is taken and none was taken since the last turn
\* complete: the accumulator of the turn is still empty
TakesFirstOfTurn == Takes("user") /\ current_user_text = NoneText

\* a user transcript is taken after another one of the same turn
TakesFurtherOfTurn == Takes("user") /\ current_user_text # NoneText

\* the first transcript of a turn: the start of speech is recorded and, when
\* a context is due, its put is made, in the same step or suspended with the
\* event held back
SpeechStartedThenInjected ==
    TakesFirstOfTurn
      => /\ ~user_speech_detected /\ user_speech_detected'
         /\ (Due /\ ~context_injected_this_speech)
              => \/ BlockEnqueued /\ context_injected_this_speech'
                 \/ /\ session_pc' = "inject"
                    /\ event' = Head(event_queue)
                    /\ forwarded' = forwarded

\* while the put is suspended the held event is not forwarded before the
\* block is on the queue, and no later event is taken
HeldUntilInjected ==
    session_pc = "inject"
      => /\ ~TakesEvent
         /\ forwarded' # forwarded
              => /\ BlockEnqueued
                 /\ context_injected_this_speech'
                 /\ sink_last' = Forwarded(event)

\* a further transcript of the turn: the tracker and the text input queue
\* are left alone and nothing is put
FurtherTranscriptCallsNeither ==
    TakesFurtherOfTurn
      => /\ UNCHANGED <<tracker, text_input_queue>>
         /\ session_pc' # "inject"

(***************************************************************************)
(* C26.  On the first user transcript of a turn the orchestrator calls     *)
(* on_user_speech_started and then inject_context_if_needed before the     *)
(* event is forwarded and before any later event is processed; on every    *)
(* further user transcript of the same turn it calls neither.              *)
(***************************************************************************)
C26_FirstTranscriptStartsSpeechAndInjects ==
    [][/\ SpeechStartedThenInjected
       /\ HeldUntilInjected
       /\ FurtherTranscriptCallsNeither]_vars

\* the first transcript of a turn is held back, speech recorded, while the
\* put of the context block waits for room
C26_Witness ==
    /\ session_pc = "inject"
    /\ event.type = "user"
    /\ user_speech_detected
    /\ current_user_text # NoneText
    /\ context_text # None
    /\ ~context_injected_this_speech

\* the exception has left start_session towards its caller
Propagated == session_pc \in {"failed", "closed"}

\* the last call of event_callback passed an error or a system_error event
ErrorAtSink == sink_last.type \in {"error", "system_error"}

(***************************************************************************)
(* C27.  Whenever the session loop ends because of a fatal condition (the  *)
(* model channel cannot be established, or an exception is raised while    *)
(* events are iterated or processed), an error or system_error event is    *)
(* passed to the client sink before the failure propagates to the caller.  *)
(***************************************************************************)
C27_FatalConditionMirroredToClient ==
    /\ Propagated => ErrorAtSink
    /\ session_pc = "failed" => sink_last = SystemError(<<"Gemini connection lost">>)

\* the channel was never established (no task was created) and the failure
\* has propagated after the system_error call
C27_Witness ==
    /\ session_pc = "failed"
    /\ receive_task = "none"
    /\ forwarded = 0
    /\ sink_last = SystemError(<<"Gemini connection lost">>)

\* get_editor_context has been called: its arguments and result are new
ToolCalled == tool_result' # tool_result

\* the selection returned is the one of the payload: its file, language and
\* text, its lines counted from one
Describes(info, payload) ==
    /\ IsSelection(payload)
    /\ info.fileName = payload.data.fileName
    /\ info.languageId = payload.data.languageId
    /\ info.text = payload.data.selection.text
    /\ info.startLine = payload.data.selection.start.line + 1
    /\ info.endLine = payload.data.selection["end"].line + 1

\* the tree returned lists the roots of the payload, in order; a root that
\* is no object is listed as "workspace" with an empty structure
Lists(list, payload) ==
    /\ IsTree(payload)
    /\ IsMapping(payload.data)
    /\ DOMAIN list = DOMAIN payload.data.roots
    /\ \A i \in DOMAIN list :
         IF IsMapping(payload.data.roots[i])
         THEN /\ list[i].name = payload.data.roots[i].name
              /\ list[i].structure = payload.data.roots[i].tree
         ELSE list[i] = [name |-> "workspace", structure |-> ""]

\* what the call returned is omitted where its flag is false
OmittedByFlag(call) ==
    call.result # AttributeError
      => /\ ~call.include_selection => call.result.selection = None
         /\ ~call.include_tree => call.result.tree = NoneList

\* a selection or tree the call returned is the payload now pending
ReturnsPending(call) ==
    call.result # AttributeError
      => /\ call.result.selection # None
              => Describes(call.result.selection, pending_context)
         /\ call.result.tree # NoneList
              => Lists(call.result.tree, pending_context)

\* an update_context call of this session, of the other session, has
\* replaced the pending context of its tracker
OwnAccepted == pending_context_hash' # pending_context_hash
PeerAccepted == peer_pending_context_hash' # peer_pending_context_hash

\* the mapping of the module holds, apart, the selection payload and the
\* tree payload that last replaced a pending context, in either session;
\* nothing else writes it
HoldsLastAccepted ==
    /\ (OwnAccepted /\ IsSelection(pending_context'))
         => current_context' = [current_context EXCEPT !.selection = pending_context']
    /\ (OwnAccepted /\ IsTree(pending_context'))
         => current_context' = [current_context EXCEPT !.tree = pending_context']
    /\ (PeerAccepted /\ IsSelection(peer_pending_context'))
         => current_context' = [current_context EXCEPT !.selection = peer_pending_context']
    /\ (PeerAccepted /\ IsTree(peer_pending_context'))
         => current_context' = [current_context EXCEPT !.tree = peer_pending_context']
    /\ (~(OwnAccepted /\ ~IsLegacy(pending_context')) /\ ~PeerAccepted)
         => UNCHANGED current_context

\* the call returns the selection held when it is included and has text,
\* the tree held when it is included and has roots, and raises when the
\* tree is included and its data is no object
ReturnsHeld(call) ==
    LET sel == current_context.selection
        tree == current_context.tree
    IN  IF call.include_tree /\ tree # None /\ ~IsMapping(tree.data)
        THEN call.result = AttributeError
        ELSE /\ call.result # AttributeError
             /\ call.result.has_selection = (call.result.selection # None)
             /\ call.result.has_tree = (call.result.tree # NoneList)
             /\ call.result.selection # None
                  <=> /\ call.include_selection
                      /\ sel # None
                      /\ sel.data.selection.text # [head |-> "", rest |-> ""]
             /\ call.result.selection # None
                  => Describes(call.result.selection, sel)
             /\ call.result.tree # NoneList
                  <=> /\ call.include_tree
                      /\ tree # None
                      /\ tree.data.roots # <<>>
             /\ call.result.tree # NoneList => Lists(call.result.tree, tree)

(***************************************************************************)
(* C28, as stated.  After any sequence of update_context calls, a          *)
(* selection or tree returned by get_editor_context is the payload         *)
(* currently held as pending_context, and each is omitted when its include *)
(* flag is false.                                                          *)
(***************************************************************************)
C28_Original ==
    [][ToolCalled => ReturnsPending(tool_result') /\ OmittedByFlag(tool_result')]_vars

(***************************************************************************)
(* C28, amended.  The selection payload and the tree payload that last     *)
(* replaced a pending context in the process are held apart; a selection   *)
(* returned by get_editor_context is the one held and a tree returned is   *)
(* the one held, whatever pending_context holds now, and each is omitted   *)
(* when its include flag is false.                                         *)
(***************************************************************************)
C28_ToolReturnsLastAcceptedSelectionAndTree ==
    [][/\ HoldsLastAccepted
       /\ ToolCalled => ReturnsHeld(tool_result') /\ OmittedByFlag(tool_result')]_vars

\* a call has returned a selection and a tree at once while the pending
\* context is the tree, and a call has left the tree out on its flag
C28_Witness ==
    /\ tool_result # NoCall
    /\ tool_result.include_selection
    /\ ~tool_result.include_tree
    /\ tool_result.result # AttributeError
    /\ tool_result.result.selection # None
    /\ tool_result.result.tree = NoneList
    /\ IsTree(pending_context)
    /\ current_context.tree = pending_context
    /\ get_editor_context(current_context, TRUE, TRUE).tree # NoneList
    /\ Describes(tool_result.result.selection, SelA)

\* what the call would have returned had the mapping been written by the
\* update_context calls of this session alone
OwnResult(call) ==
    get_editor_context(own_context, call.include_selection, call.include_tree)

(***************************************************************************)
(* C29.  The context the tool-invocation layer sees is owned by the        *)
(* session: with two sessions running in one process, the result of        *)
(* get_editor_context in one session depends only on the context payloads  *)
(* that session received, not on the payloads the other one received.      *)
(***************************************************************************)
C29_ToolResultOwnedBySession ==
    [][ToolCalled => tool_result'.result = OwnResult(tool_result')]_vars

\* the two flags of the turn are false after the step
TurnFlagsCleared ==
    /\ ~user_speech_detected'
    /\ ~context_injected_this_speech'

\* the pending context, its fingerprint and the fingerprint injected last
\* are what they were
ContextKept ==
    UNCHANGED <<pending_context, pending_context_hash,
                last_injected_context_hash>>

(***************************************************************************)
(* C30.  reset_for_new_turn, which the orchestrator calls on a turn        *)
(* complete, sets user_speech_detected and context_injected_this_speech to *)
(* false and leaves pending_context, pending_context_hash and              *)
(* last_injected_context_hash unchanged.                                   *)
(***************************************************************************)
C30_ResetClearsFlagsKeepsContext ==
    [][Takes("turn_complete") => TurnFlagsCleared /\ ContextKept]_vars

\* a turn in which a context was injected has completed: the flags are
\* false again, the pending context and both fingerprints are still there
C30_Witness ==
    /\ sink_last.type = "turn_complete"
    /\ session_pc = "next"
    /\ context_injected_count = 1
    /\ ~user_speech_detected
    /\ ~context_injected_this_speech
    /\ pending_context # None
    /\ pending_context_hash # NoneHash
    /\ last_injected_context_hash = pending_context_hash

\* an update_context call has written a pending field or returned another
\* value than the call before it
UpdateStep ==
    <<pending_context, pending_context_hash, update_result>>'
      # <<pending_context, pending_context_hash, update_result>>

\* the put of inject_context_if_needed completes in this step: at the first
\* transcript of a turn, or when the suspended put resumes
InjectStep ==
    /\ TakesFirstUser \/ session_pc = "inject"
    /\ BlockEnqueued
    /\ context_injected_this_speech'

(***************************************************************************)
(* C31.  update_context never changes last_injected_context_hash,          *)
(* user_speech_detected or context_injected_this_speech, whatever payload  *)
(* it is given and whatever it returns; last_injected_context_hash changes *)
(* only inside inject_context_if_needed.                                   *)
(***************************************************************************)
C31_UpdateLeavesInjectionStateAlone ==
    [][/\ UpdateStep
            => UNCHANGED <<last_injected_context_hash, user_speech_detected,
                           context_injected_this_speech>>
       /\ last_injected_context_hash' # last_injected_context_hash
            => InjectStep]_vars

\* a context was accepted after the injection of the turn: it is pending,
\* the fingerprint injected and the two flags are as the injection left them
C31_Witness ==
    /\ update_result = "True"
    /\ user_speech_detected
    /\ context_injected_this_speech
    /\ last_injected_context_hash # NoneHash
    /\ pending_context_hash # last_injected_context_hash
    /\ session_pc = "next"

(***************************************************************************)
(* C32.  After any interleaving of router and orchestrator steps,          *)
(* last_injected_context_hash is the fingerprint of the context whose      *)
(* formatted text was enqueued last on the text input queue; a context     *)
(* update that arrives while inject_context_if_needed is suspended on the  *)
(* full queue is not recorded as injected.                                 *)
(***************************************************************************)
C32_InjectedHashIsEnqueuedContext ==
    last_injected_context_hash = enqueued_hash

(***************************************************************************)
(* C33.  Under fair scheduling and a connected client, every event the     *)
(* receive loop emits is eventually forwarded to the client sink: the      *)
(* orchestrator never stays blocked forever inside                         *)
(* inject_context_if_needed, also when the text input queue is full and    *)
(* the text sender has terminated after a transmit failure.                *)
(***************************************************************************)
C33_EveryEventEventuallyForwarded ==
    \A n \in 1..MaxEvents : (emitted >= n) ~> (forwarded >= n)

\* a user transcript is taken in a turn that was interrupted after its
\* first transcript and has not completed
TakesUserAfterInterrupted ==
    /\ Takes("user")
    /\ turn_interrupted
    /\ current_user_text # NoneText

(***************************************************************************)
(* C34.  After an Interrupted event with no TurnComplete processed since   *)
(* the first user transcript of the turn, the next user transcript belongs *)
(* to the same turn: inject_context_if_needed is not invoked again until a *)
(* TurnComplete has been processed, even if the pending context changed in *)
(* between.                                                                *)
(***************************************************************************)
C34_NoReinjectionAfterInterrupted ==
    [][TakesUserAfterInterrupted
         => /\ UNCHANGED <<tracker, text_input_queue>>
            /\ session_pc' # "inject"]_vars

\* a user transcript was forwarded after the interruption of its turn while
\* a context newer than the injected one is pending, and nothing was
\* injected for it
C34_Witness ==
    /\ turn_interrupted
    /\ sink_last.type = "user"
    /\ session_pc = "next"
    /\ user_speech_detected
    /\ pending_context_hash # last_injected_context_hash
    /\ injected_this_turn = 1
    /\ enqueued_hash = last_injected_context_hash

\* the item the step has appended to the text input queue
Enqueued == text_input_queue'[Len(text_input_queue')]

\* an accepted update leaves one snapshot, the payload it accepted, with
\* that payload's fingerprint
HoldsLatestOnly ==
    pending_context_hash' # pending_context_hash
      => /\ pending_context' \in Payloads
         /\ pending_context_hash' = Fingerprint(pending_context')

\* a block is enqueued only for a speech start, and it is the block of the
\* snapshot that was pending at that speech start, also when the put had to
\* wait for a free slot
BlockIsOfPendingSnapshot ==
    /\ BlockEnqueued => TakesFirstUser \/ session_pc = "inject"
    /\ TakesFirstUser /\ BlockEnqueued
         => Enqueued = format_editor_context_for_gemini(pending_context)
    /\ TakesFirstUser /\ session_pc' = "inject"
         => context_text' = format_editor_context_for_gemini(pending_context)
    /\ session_pc = "inject" /\ BlockEnqueued => Enqueued = context_text

(***************************************************************************)
(* C35.  The tracker holds only the most recently accepted snapshot: when  *)
(* a selection is accepted and a tree or another selection is accepted     *)
(* after it before the next speech start, the block enqueued at that       *)
(* speech start is the later snapshot's, and the earlier snapshot is never *)
(* injected unless the client sends it again.                              *)
(***************************************************************************)
C35_OnlyLatestSnapshotInjected ==
    [][HoldsLatestOnly /\ BlockIsOfPendingSnapshot]_vars

\* selection A was accepted, the tree was accepted after it, and the one
\* block that was ever enqueued is the tree's
C35_Witness ==
    /\ current_context.selection = SelA
    /\ pending_context = TreeA
    /\ context_injected_count = 1
    /\ injected_this_turn = 1
    /\ enqueued_hash = TreeHash(TreeA)
    /\ text_input_queue # <<>>
    /\ text_input_queue[Len(text_input_queue)] = FormatTree(TreeA.data)

\* the first user transcript of a turn is taken while the pending context
\* formats to the empty string
TakesFirstUserOnUnformattable ==
    /\ TakesFirstUser
    /\ pending_context # None
    /\ format_editor_context_for_gemini(pending_context) = EmptyText

(***************************************************************************)
(* C36.  If formatting the pending context yields no text (the formatter   *)
(* caught an exception and returned the empty string),                     *)
(* inject_context_if_needed enqueues nothing and leaves                    *)
(* last_injected_context_hash, context_injected_this_speech and            *)
(* context_injected_count unchanged.                                       *)
(***************************************************************************)
C36_EmptyFormattingInjectsNothing ==
    [][TakesFirstUserOnUnformattable
         => /\ UNCHANGED <<text_input_queue, last_injected_context_hash,
                           context_injected_this_speech,
                           context_injected_count>>
            /\ session_pc' # "inject"]_vars

\* the turn started while the tree the formatter fails on was pending and
\* had not been injected: its transcript was forwarded, nothing is recorded
\* as injected
C36_Witness ==
    /\ speech_start_context = TreeBad
    /\ user_speech_detected
    /\ sink_last.type = "user"
    /\ session_pc = "next"
    /\ ~context_injected_this_speech
    /\ context_injected_count = 0
    /\ last_injected_context_hash = NoneHash
    /\ text_input_queue = <<>>

\* the selected text of a selection payload
SelectedText(payload) == payload.data.selection.text

\* the line range a block cites for a selection payload
CitedLines(payload) ==
    <<payload.data.selection.start.line + 1,
      payload.data.selection["end"].line + 1>>

\* the router takes a selection frame that agrees with the pending selection
\* in file name and in the first 500 characters of its text
TakesSameFingerprintSelection ==
    /\ TakesFrame
    /\ Route(Taken) = "context"
    /\ IsSelection(Parse(Taken))
    /\ IsSelection(pending_context)
    /\ Parse(Taken).data.fileName = pending_context.data.fileName
    /\ Prefix500(SelectedText(Parse(Taken)))
         = Prefix500(SelectedText(pending_context))

\* the block made at a speech start for a pending selection cites the lines
\* of the payload that is pending
BlockCitesPendingLines ==
    TakesFirstUser /\ IsSelection(pending_context)
      => /\ BlockEnqueued => Enqueued.lines = CitedLines(pending_context)
         /\ session_pc' = "inject"
              => context_text'.lines = CitedLines(pending_context)

(***************************************************************************)
(* C37.  The selection fingerprint covers only the file name and the first *)
(* 500 characters of the selected text: a selection payload that differs   *)
(* from the pending one only in its line range, its language id or text    *)
(* beyond the first 500 characters is rejected by update_context (returns  *)
(* False), pending_context keeps the earlier payload, and a later          *)
(* injection cites the earlier payload's line range.                       *)
(***************************************************************************)
C37_FingerprintIgnoresLinesLanguageTail ==
    [][/\ TakesSameFingerprintSelection
            => /\ update_result' = "False"
               /\ UNCHANGED <<pending_context, pending_context_hash>>
       /\ BlockCitesPendingLines]_vars

\* selection A was pending, the same selection at lines 21-23 was the second
\* frame and was rejected, then the turn started: the block that was
\* enqueued cites lines 11-13
C37_Witness ==
    /\ last_frame.n = 2
    /\ last_frame.frame = JsonFrame("{selection A, lines 21-23}", SelA2)
    /\ update_result = "False"
    /\ pending_context = SelA
    /\ speech_start_frame = 2
    /\ context_injected_count = 1
    /\ text_input_queue # <<>>
    /\ text_input_queue[Len(text_input_queue)].lines = <<11, 13>>

\* the interrupted events on a queue
Interrupteds(q) ==
    Cardinality({i \in 1..Len(q) : q[i].type = "interrupted"})

(***************************************************************************)
(* C38.  For a server content message flagged interrupted, the interrupt   *)
(* callback (if one was supplied) is invoked and has completed before the  *)
(* interrupted event is put on the event queue, and exactly one            *)
(* interrupted event is emitted per such message.  Stated for the messages *)
(* after which the receive loop is still running, that is, whose callbacks *)
(* did not raise.                                                          *)
(***************************************************************************)
C38_InterruptedAlwaysEmitted ==
    [][TakesMessage /\ Message.interrupted /\ receive_task' = "running"
         => Interrupteds(event_queue') = Interrupteds(event_queue) + 1]_vars

(***************************************************************************)
(* C39.  After the orchestrator processes TurnComplete, the turn-scoped    *)
(* audio accumulator is empty and both turn text accumulators              *)
(* (current_user_text, current_gemini_text) are cleared; after it          *)
(* processes Interrupted, the audio accumulator is empty and the text      *)
(* accumulators are unchanged.                                             *)
(***************************************************************************)
C39_TurnCompleteClearsAllInterruptedAudioOnly ==
    [][/\ Takes("turn_complete")
            => /\ current_turn_audio' = <<>>
               /\ current_user_text' = NoneText
               /\ current_gemini_text' = NoneText
       /\ Takes("interrupted")
            => /\ current_turn_audio' = <<>>
               /\ UNCHANGED <<current_user_text, current_gemini_text>>]_vars

\* both transcripts of the turn were accumulated, the interruption was the
\* third event and has been forwarded: the chunks still waiting for the
\* audio sender were accumulated before it and are gone from the
\* accumulator, the texts are kept
C39_Witness ==
    /\ sink_last.type = "interrupted"
    /\ sink_last.seq = 3
    /\ current_user_text # NoneText
    /\ current_gemini_text # NoneText
    /\ current_turn_audio = <<>>
    /\ audio_input_queue # <<>>
    /\ router_pc = "receive"

\* one step of a queue: nothing, its head is taken, or an item is added at
\* its end
FifoStep(q, next) ==
    \/ next = q
    \/ q # <<>> /\ next = Tail(q)
    \/ Len(next) = Len(q) + 1 /\ SubSeq(next, 1, Len(q)) = q

\* items leave the two queues only through their sender loops
TakenBySender ==
    /\ Len(text_input_queue') < Len(text_input_queue)
         => send_text_task = "running"
    /\ Len(video_input_queue') < Len(video_input_queue)
         => send_video_task = "running"

\* a push gets its item on the queue or waits with it: a literal text frame,
\* a decoded image, the block of a speech start
PushedOrWaiting ==
    /\ TakesFrame /\ Route(Taken) = "text" /\ Taken.raw # ""
         => \/ text_input_queue'
                 = Append(text_input_queue, Stamped(Taken, last_frame'.n))
            \/ /\ Full(text_input_queue)
               /\ router_pc' = "put_text"
               /\ router_text' = Stamped(Taken, last_frame'.n)
    /\ TakesFrame /\ Route(Taken) = "image" /\ Decodable(Parse(Taken))
         => \/ video_input_queue'
                 = Append(video_input_queue, Decoded(Parse(Taken)))
            \/ /\ VideoFull
               /\ router_pc' = "put_video"
               /\ router_text' = Decoded(Parse(Taken))
    /\ TakesFirstUser /\ InjectNeeded
         => \/ text_input_queue'
                 = Append(text_input_queue,
                          format_editor_context_for_gemini(pending_context))
            \/ /\ Full(text_input_queue)
               /\ session_pc' = "inject"
               /\ context_text'
                    = format_editor_context_for_gemini(pending_context)

\* a waiting push keeps its item until the item is on the queue
WaitingKept ==
    /\ router_pc = "put_text"
         => \/ router_pc' = "put_text" /\ router_text' = router_text
            \/ text_input_queue' = Append(text_input_queue, router_text)
    /\ router_pc = "put_video"
         => \/ router_pc' = "put_video" /\ router_text' = router_text
            \/ video_input_queue' = Append(video_input_queue, router_text)
    /\ session_pc = "inject"
         => \/ session_pc' = "inject" /\ context_text' = context_text
            \/ text_input_queue' = Append(text_input_queue, context_text)

\* the two queues within their sizes
WithinMaxsize ==
    /\ Len(text_input_queue) <= TextQueueMaxsize
    /\ Len(video_input_queue) <= VideoQueueMaxsize

====
